---- MODULE Spec2Model ----
(***************************************************************************)
(* Filters of the clp-s archive format (components/core/src/clp_s):         *)
(* probabilistic filters (Bloom, BinaryFuse, NGramPrefix, PrefixSuffix),    *)
(* the per-column exact-set filters, the dictionary writer and reader       *)
(* hooks, the FilterFile framing and the filter-pack scan.                  *)
(*                                                                         *)
(* Each component has its own variables and its own specification          *)
(* (SpecBloom, SpecFuse, ...); a specification leaves the variables of the  *)
(* other components at their idle values.                                  *)
(***************************************************************************)
EXTENDS Integers, Sequences, FiniteSets, TLC

VARIABLES
    sha,            \* the two 64-bit words generate_hash_values takes from SHA-256, per value
    bloom,          \* BloomFilter object: m_bit_array, m_bit_array_size, m_num_hash_functions
    bloom_added,    \* history: values for which add() has returned
    bloom_query,    \* history: last possibly_contains call (value, answer)
    bloom_params,   \* history: what compute_parameters returned to the constructor
    fuse,           \* BinaryFuseFilter object under construction or built
    fuse_keys,      \* history: the key set the filter is constructed from
    fuse_env,       \* whether the keys collide under every seed
    fuse_h,         \* hash_key(key, m_seed) for the current m_seed
    fuse_phase,     \* "constructing", "built" or "failed" (construct_filter threw)
    fuse_query,     \* history: last possibly_contains call
    fuse_add_call,  \* history: last add call on the filter
    ngram,          \* NGramPrefixFilter object
    ngram_keys,     \* history: the key set the filter was constructed from
    ngram_fp,       \* strings on which the inner filters' hash gives a false positive
    ngram_query,    \* history: last possibly_contains call
    dw,             \* VariableDictionaryWriter object
    dw_file,        \* the filter file the last close wrote, if any
    dw_passed,      \* history: values of the add_entry calls that returned, filter enabled, since open
    dw_removed,     \* history: values removed from m_value_to_id since open
    dw_result,      \* history: how the last call ended
    dr,             \* DictionaryReader object of the variable dictionary
    dr_load,        \* history: what the most recent load_bloom_filter call returned
    out_call,       \* history: last should_load_variable_dictionary call
    stray_bit,      \* what a read beyond the end of a bit array yields
    schema_variant, \* which column filter class: "int" or "string"
    schema_w,       \* the column filter of a SchemaWriter
    schema_adds,    \* history: number of add_value calls
    schema_file,    \* the bytes write_to_file produced, and the filter they came from
    schema_r,       \* the column filter an ArchiveReader read back
    schema_query,   \* history: last contains call
    ff_config,      \* FilterConfig a filter file is written with
    ff_filter,      \* ProbabilisticFilter a filter file is written from
    scan_memory,    \* the bytes that precede the pack buffer in memory
    scan_in,        \* history: the arguments of the last run_filter_scan
    scan_out,       \* history: what the last run_filter_scan wrote
    pack_inputs,    \* the manifest entries: archive id and the bytes of its filter file
    pack_out,       \* what build_filter_pack_file returned, and the file it wrote
    pack_parsed,    \* history: the footer and index parsed from the pack that was built
    hdr_file,       \* the bytes of a filter file on disk
    hdr_read,       \* history: what read_filter_file returned for hdr_file as it is now
    psf,            \* the PrefixSuffixFilter
    psf_added,      \* history: the values add has returned for
    psf_adds,       \* number of add calls
    psf_query,      \* history: last possibly_contains call
    cp_heap,        \* the live filter implementations, by address
    cp_orig,        \* the wrapper that is copied
    cp_copy,        \* the wrapper that is made from it
    cp_log,         \* history: copies and adds so far
    terms_expr,     \* the expression handed to collect_filter_terms
    terms_result,   \* the FilterTermExtractionResult of the call
    out_in,         \* the archive and the query of a run of Output::filter
    out_run,        \* the run: its position, the reader, the calls made and the output
    slot_f,         \* Slot: the BinaryFuseFilter whose slots are written
    slot_before,    \* Slot: m_filter_u8 before the last set_filter_value
    slot_call,      \* Slot: the last set_filter_value call
    slot_sets,      \* Slot: number of set_filter_value calls
    ld_bloom,       \* Load: the BloomFilter
    ld_adds,        \* Load: number of add calls
    ld_read,        \* Load: the read_from_file call, if made
    ff_num_elements, \* number of elements added to ff_filter
    ff_file,        \* the filter file written, and what it was written from
    ff_read         \* what read_filter_file returned for ff_file

bloomVars == <<sha, bloom, bloom_added, bloom_query, bloom_params>>

fuseVars == <<fuse, fuse_keys, fuse_env, fuse_h, fuse_phase, fuse_query, fuse_add_call>>

ngramVars == <<ngram, ngram_keys, ngram_fp, ngram_query>>

dictVars == <<dw, dw_file, dw_passed, dw_removed, dw_result>>

readerVars == <<dr, dr_load, out_call, stray_bit>>

schemaVars == <<schema_variant, schema_w, schema_adds, schema_file, schema_r, schema_query>>

fileVars == <<ff_config, ff_filter, ff_num_elements, ff_file, ff_read>>

scanVars == <<scan_memory, scan_in, scan_out>>

packVars == <<pack_inputs, pack_out, pack_parsed>>

headerVars == <<hdr_file, hdr_read>>

psfVars == <<psf, psf_added, psf_adds, psf_query>>

copyVars == <<cp_heap, cp_orig, cp_copy, cp_log>>

termsVars == <<terms_expr, terms_result>>

runVars == <<out_in, out_run>>

slotVars == <<slot_f, slot_before, slot_call, slot_sets>>

loadVars == <<ld_bloom, ld_adds, ld_read>>

vars ==
    <<bloomVars, fuseVars, ngramVars, dictVars, readerVars, schemaVars, fileVars, scanVars,
      packVars, headerVars, psfVars, copyVars, termsVars, runVars, slotVars, loadVars>>

\* the variables of the other components
notBloom ==
    <<fuseVars, ngramVars, dictVars, readerVars, schemaVars, fileVars, scanVars,
      packVars, headerVars, psfVars, copyVars, termsVars, runVars, slotVars, loadVars>>

notFuse ==
    <<bloomVars, ngramVars, dictVars, readerVars, schemaVars, fileVars, scanVars,
      packVars, headerVars, psfVars, copyVars, termsVars, runVars, slotVars, loadVars>>

notNGram ==
    <<bloomVars, fuseVars, dictVars, readerVars, schemaVars, fileVars, scanVars,
      packVars, headerVars, psfVars, copyVars, termsVars, runVars, slotVars, loadVars>>

notDict ==
    <<bloomVars, fuseVars, ngramVars, readerVars, schemaVars, fileVars, scanVars,
      packVars, headerVars, psfVars, copyVars, termsVars, runVars, slotVars, loadVars>>

notReader ==
    <<bloomVars, fuseVars, ngramVars, dictVars, schemaVars, fileVars, scanVars,
      packVars, headerVars, psfVars, copyVars, termsVars, runVars, slotVars, loadVars>>

notSchema ==
    <<bloomVars, fuseVars, ngramVars, dictVars, readerVars, fileVars, scanVars,
      packVars, headerVars, psfVars, copyVars, termsVars, runVars, slotVars, loadVars>>

notFile ==
    <<bloomVars, fuseVars, ngramVars, dictVars, readerVars, schemaVars, scanVars,
      packVars, headerVars, psfVars, copyVars, termsVars, runVars, slotVars, loadVars>>

notScan ==
    <<bloomVars, fuseVars, ngramVars, dictVars, readerVars, schemaVars, fileVars,
      packVars, headerVars, psfVars, copyVars, termsVars, runVars, slotVars, loadVars>>

notPack ==
    <<bloomVars, fuseVars, ngramVars, dictVars, readerVars, schemaVars, fileVars,
      scanVars, headerVars, psfVars, copyVars, termsVars, runVars, slotVars, loadVars>>

notHeader ==
    <<bloomVars, fuseVars, ngramVars, dictVars, readerVars, schemaVars, fileVars,
      scanVars, packVars, psfVars, copyVars, termsVars, runVars, slotVars, loadVars>>

notPsf ==
    <<bloomVars, fuseVars, ngramVars, dictVars, readerVars, schemaVars, fileVars,
      scanVars, packVars, headerVars, copyVars, termsVars, runVars, slotVars, loadVars>>

notCopy ==
    <<bloomVars, fuseVars, ngramVars, dictVars, readerVars, schemaVars, fileVars,
      scanVars, packVars, headerVars, psfVars, termsVars, runVars, slotVars, loadVars>>

notTerms ==
    <<bloomVars, fuseVars, ngramVars, dictVars, readerVars, schemaVars, fileVars,
      scanVars, packVars, headerVars, psfVars, copyVars, runVars, slotVars, loadVars>>

notRun ==
    <<bloomVars, fuseVars, ngramVars, dictVars, readerVars, schemaVars, fileVars,
      scanVars, packVars, headerVars, psfVars, copyVars, termsVars, slotVars, loadVars>>

notSlot ==
    <<bloomVars, fuseVars, ngramVars, dictVars, readerVars, schemaVars, fileVars,
      scanVars, packVars, headerVars, psfVars, copyVars, termsVars, runVars, loadVars>>

notLoad ==
    <<bloomVars, fuseVars, ngramVars, dictVars, readerVars, schemaVars, fileVars,
      scanVars, packVars, headerVars, psfVars, copyVars, termsVars, runVars, slotVars>>

\* ---------------------------------------------------------------------------
\* Generic helpers
\* ---------------------------------------------------------------------------

Pow2(n) == 2 ^ n

Max(a, b) == IF a >= b THEN a ELSE b

Min(a, b) == IF a <= b THEN a ELSE b

\* ceil(a / b) for naturals, b > 0
CeilDiv(a, b) == (a + b - 1) \div b

\* bit k of the byte b
ByteBit(b, k) == (b \div Pow2(k)) % 2

NoQuery == [value |-> "", answer |-> FALSE, asked |-> FALSE]

\* ---------------------------------------------------------------------------
\* Bit arithmetic on unsigned words (all values stay below 2^31)
\* ---------------------------------------------------------------------------

\* bit j of the unsigned value v
NatBit(v, j) == IF j >= 31 THEN 0 ELSE (v \div Pow2(j)) % 2

RECURSIVE BitsValue(_, _)
\* the number whose bit j is bits[j], for j < n
BitsValue(bits, n) ==
    IF n = 0 THEN 0
    ELSE BitsValue(bits, n - 1) + (IF bits[n - 1] = 1 THEN Pow2(n - 1) ELSE 0)

RECURSIVE BitXor(_, _)
BitXor(a, b) ==
    IF a = 0 THEN b
    ELSE IF b = 0 THEN a
    ELSE ((a + b) % 2) + 2 * BitXor(a \div 2, b \div 2)

\* x & (2^w - 1): a mask of the form 2^w - 1 is kept as its width w
AndMask(x, w) == IF w >= 31 THEN x ELSE x % Pow2(w)

\* ---------------------------------------------------------------------------
\* BloomFilterPolicy
\* ---------------------------------------------------------------------------

\* False-positive rates handed to the constructors.  "le0" stands for any
\* rate <= 0 and "ge1" for any rate >= 1.
BloomRates == {"0.07", "0.5", "le0", "ge1"}

\* compute_bits_per_key, in thousandths of a bit:
\*   p <= 0 -> 100.0, p >= 1 -> 0.1, else -log2(p) / ln 2
\*   (0.07 -> 5.5349, 0.5 -> 1.4427)
compute_bits_per_key(p) ==
    CASE p = "le0" -> 100000
      [] p = "ge1" -> 100
      [] p = "0.07" -> 5535
      [] p = "0.5" -> 1443

\* compute_num_hash_functions: max(1, round(bits_per_key * ln 2)), ln 2 = 0.693
compute_num_hash_functions(bpk) ==
    Max(1, (bpk * 693 + 500000) \div 1000000)

compute_parameters(p) ==
    [bits_per_key |-> compute_bits_per_key(p),
     num_hash_functions |-> compute_num_hash_functions(compute_bits_per_key(p))]

\* ---------------------------------------------------------------------------
\* BloomFilter
\* ---------------------------------------------------------------------------

MaxExpected == 2

MaxHash == 3

BloomValues == {"a", "b"}

HashWords == 0 .. MaxHash

Zeros(n) == [i \in 1 .. n |-> 0]

\* BloomFilter() = default: no bit array, zero size, zero hash functions
EmptyBloomFilter ==
    [m_bit_array |-> <<>>, m_bit_array_size |-> 0, m_num_hash_functions |-> 0]

\* BloomFilter(expected_num_elements, false_positive_rate)
BloomFilter(expected_num_elements, false_positive_rate) ==
    IF expected_num_elements = 0
    THEN EmptyBloomFilter
    ELSE LET params == compute_parameters(false_positive_rate)
             size == Max(CeilDiv(params.bits_per_key * expected_num_elements, 1000), 8)
         IN [m_bit_array |-> Zeros((size + 7) \div 8),
             m_bit_array_size |-> size,
             m_num_hash_functions |-> params.num_hash_functions]

\* generate_hash_values: hash_i = h1 + i * h2 for i < num_hash_functions
generate_hash_values(h, value, num_hash_functions) ==
    [i \in 1 .. num_hash_functions |-> h[value].h1 + (i - 1) * h[value].h2]

\* set_bit for every index of a set: bit (index % 8) of byte index / 8 is or-ed in
set_bit(bit_array, indices) ==
    [i \in 1 .. Len(bit_array) |->
        BitsValue([b \in 0 .. 7 |->
            IF ByteBit(bit_array[i], b) = 1 \/ (8 * (i - 1) + b) \in indices
            THEN 1 ELSE 0], 8)]

\* hash_value % m_bit_array_size; where a division by zero does not trap, the
\* remainder is the dividend
hash_mod(hash_value, bit_array_size) ==
    IF bit_array_size = 0 THEN hash_value ELSE hash_value % bit_array_size

\* test_bit; an index beyond the array reads whatever lies behind it
test_bit(bit_array, bit_index) ==
    IF bit_index \div 8 < Len(bit_array)
    THEN ByteBit(bit_array[(bit_index \div 8) + 1], bit_index % 8) = 1
    ELSE stray_bit

\* BloomFilter::add: set_bit(hash % m_bit_array_size) for each hash value.
\* With no hash functions the loop body never runs.
bloom_add(f, h, value) ==
    LET hashes == generate_hash_values(h, value, f.m_num_hash_functions)
    IN [f EXCEPT !.m_bit_array =
            set_bit(@, {hash_mod(hashes[i], f.m_bit_array_size) : i \in 1 .. Len(hashes)})]

\* BloomFilter::possibly_contains
bloom_possibly_contains(f, h, value) ==
    IF f.m_bit_array = <<>> THEN FALSE
    ELSE LET hashes == generate_hash_values(h, value, f.m_num_hash_functions)
         IN \A i \in 1 .. Len(hashes) :
                test_bit(f.m_bit_array, hash_mod(hashes[i], f.m_bit_array_size))

HashFunctions(values) == [values -> [h1 : HashWords, h2 : HashWords]]

NoParameters == [called |-> FALSE, bits_per_key |-> 0, num_hash_functions |-> 0]

\* the call m_policy->compute_parameters(false_positive_rate) of the
\* constructor, which it reaches when expected_num_elements is not 0
ConstructorParameters(expected_num_elements, false_positive_rate) ==
    IF expected_num_elements = 0 THEN NoParameters
    ELSE [called |-> TRUE,
          bits_per_key |-> compute_parameters(false_positive_rate).bits_per_key,
          num_hash_functions |-> compute_parameters(false_positive_rate).num_hash_functions]

InitBloom ==
    /\ sha \in HashFunctions(BloomValues)
    /\ \/ /\ bloom = EmptyBloomFilter
          /\ bloom_params = NoParameters
       \/ \E n \in 0 .. MaxExpected, p \in BloomRates :
             /\ bloom = BloomFilter(n, p)
             /\ bloom_params = ConstructorParameters(n, p)
    /\ bloom_added = {}
    /\ bloom_query = NoQuery

BloomAdd(value) ==
    /\ bloom' = bloom_add(bloom, sha, value)
    /\ bloom_added' = bloom_added \cup {value}
    /\ UNCHANGED <<sha, bloom_query, bloom_params>>
    /\ UNCHANGED notBloom

BloomPossiblyContains(value) ==
    /\ bloom_query' = [value |-> value,
                       answer |-> bloom_possibly_contains(bloom, sha, value),
                       asked |-> TRUE]
    /\ UNCHANGED <<sha, bloom, bloom_added, bloom_params>>
    /\ UNCHANGED notBloom

NextBloom ==
    \/ \E value \in BloomValues : BloomAdd(value)
    \/ \E value \in BloomValues : BloomPossiblyContains(value)

IdleBloom ==
    /\ sha = <<>>
    /\ bloom = EmptyBloomFilter
    /\ bloom_params = NoParameters
    /\ bloom_added = {}
    /\ bloom_query = NoQuery

\* ---------------------------------------------------------------------------
\* Byte streams: numbers are written little-endian; a number read back is
\* kept as its bytes and converted while it is below 2^31
\* ---------------------------------------------------------------------------

\* stands for every value of 2^31 - 1 or more
Huge == Pow2(30) + (Pow2(30) - 1)

\* write_numeric_value<T>(n) for a T of width bytes
NumBytes(n, width) ==
    [i \in 1 .. width |-> IF i <= 4 THEN (n \div Pow2(8 * (i - 1))) % 256 ELSE 0]

\* the number that little-endian bytes hold
NumValue(bytes) ==
    IF \E i \in 1 .. Len(bytes) : bytes[i] # 0 /\ (i > 4 \/ (i = 4 /\ bytes[i] >= 128))
    THEN Huge
    ELSE LET digits == [i \in 1 .. 4 |-> IF i <= Len(bytes) THEN bytes[i] ELSE 0]
         IN digits[1] + 256 * digits[2] + 65536 * digits[3] + 16777216 * digits[4]

\* try_read_numeric_value<T> at offset pos of a stream
try_read_numeric_value(stream, pos, width) ==
    IF pos + width <= Len(stream)
    THEN [ok |-> TRUE, value |-> NumValue(SubSeq(stream, pos + 1, pos + width)),
          pos |-> pos + width]
    ELSE [ok |-> FALSE, value |-> 0, pos |-> pos]

FilterTypeNone == 0

FilterTypeBloom == 1

\* BloomFilter::write_to_file
bloom_write_to_file(f) ==
    <<FilterTypeBloom>> \o NumBytes(f.m_num_hash_functions, 4)
        \o NumBytes(f.m_bit_array_size, 8) \o NumBytes(Len(f.m_bit_array), 8)
        \o f.m_bit_array

\* BloomFilter::read_from_file from offset pos: whether it returned true, the
\* object afterwards (fields read before a failure stay overwritten) and the
\* offset reached
bloom_read_from_file(f, stream, pos) ==
    LET r1 == try_read_numeric_value(stream, pos, 4)
        f1 == [f EXCEPT !.m_num_hash_functions = r1.value]
        r2 == try_read_numeric_value(stream, r1.pos, 8)
        f2 == [f1 EXCEPT !.m_bit_array_size = r2.value]
        r3 == try_read_numeric_value(stream, r2.pos, 8)
        bit_array_bytes == r3.value
        resized == [i \in 1 .. bit_array_bytes |->
                       IF i <= Len(f.m_bit_array) THEN f.m_bit_array[i] ELSE 0]
        num_bytes_read == Min(bit_array_bytes, Len(stream) - r3.pos)
        filled == [i \in 1 .. bit_array_bytes |->
                      IF i <= num_bytes_read THEN stream[r3.pos + i] ELSE resized[i]]
    IN IF ~r1.ok THEN [ok |-> FALSE, f |-> f, pos |-> pos]
       ELSE IF ~r2.ok THEN [ok |-> FALSE, f |-> f1, pos |-> r1.pos]
       ELSE IF ~r3.ok THEN [ok |-> FALSE, f |-> f2, pos |-> r2.pos]
       ELSE [ok |-> num_bytes_read = bit_array_bytes,
             f |-> [f2 EXCEPT !.m_bit_array = filled],
             pos |-> r3.pos + num_bytes_read]

\* ---------------------------------------------------------------------------
\* BinaryFuseFilterPolicy
\* ---------------------------------------------------------------------------

\* "1e-10" stands for a rate whose ceil(-log2 p) exceeds 32.
FuseRates == {"0.07", "le0", "ge1", "1e-10"}

\* compute_fingerprint_bits: p <= 0 -> 16, p >= 1 -> 1,
\* else clamp(ceil(-log2 p), 4, 32)   (0.07 -> 4, 0.5 -> 1 -> 4, 1e-10 -> 34 -> 32)
compute_fingerprint_bits(p) ==
    CASE p = "le0" -> 16
      [] p = "ge1" -> 1
      [] p = "0.07" -> Min(Max(4, 4), 32)
      [] p = "0.5" -> Min(Max(1, 4), 32)
      [] p = "1e-10" -> Min(Max(34, 4), 32)

\* ---------------------------------------------------------------------------
\* BinaryFuseFilter
\* ---------------------------------------------------------------------------

min_elements == 32

max_attempts == 500

\* calculate_expansion_factor, in thousandths: 1.23 + (n < 10000 ? 0.02 : 0.005)
calculate_expansion_factor(n) ==
    Min(2000, 1230 + (IF n < 10000 THEN 20 ELSE 5))

\* BinaryFuseFilter() = default member initialisers
EmptyBinaryFuseFilter ==
    [m_filter_u8 |-> <<>>, m_array_size |-> 0, m_segment_length |-> 0,
     m_fingerprint_bits |-> 8, m_fingerprint_mask |-> 0, m_seed |-> 0,
     m_keys_buffer |-> <<>>]

\* Widths the build can give m_fingerprint_mask = (1u << bits) - 1.  A shift
\* of a 32-bit value by 32 is undefined: the shift count is taken modulo 32
\* (mask 0) or the shifted value is 0 (mask 0xFFFFFFFF).
FingerprintMaskWidths(bits) == IF bits >= 32 THEN {0, 32} ELSE {bits}

\* init_filter_array: total_bytes = (array_size * fingerprint_bits + 7) / 8
init_filter_array(array_size, fingerprint_bits) ==
    Zeros((array_size * fingerprint_bits + 7) \div 8)

\* BinaryFuseFilter(expected_num_elements, false_positive_rate)
BinaryFuseFilter(expected_num_elements, false_positive_rate, mask_width) ==
    IF expected_num_elements = 0
    THEN EmptyBinaryFuseFilter
    ELSE LET n == Max(expected_num_elements, min_elements)
             bits == Min(compute_fingerprint_bits(false_positive_rate), 32)
             segment_length == CeilDiv(n * calculate_expansion_factor(n), 3000)
         IN [m_filter_u8 |-> init_filter_array(3 * segment_length, bits),
             m_array_size |-> 3 * segment_length,
             m_segment_length |-> segment_length,
             m_fingerprint_bits |-> bits,
             m_fingerprint_mask |-> mask_width,
             m_seed |-> 0,
             m_keys_buffer |-> <<>>]

\* get_filter_value: up to 5 bytes from byte_index form raw_val; the result is
\* (raw_val >> bit_offset) & m_fingerprint_mask
get_filter_value(f, pos) ==
    LET bit_index == pos * f.m_fingerprint_bits
        byte_index == bit_index \div 8
        bit_offset == bit_index % 8
        bytes_available == Len(f.m_filter_u8) - byte_index
        bytes_to_read == Min(bytes_available, 5)
        RawBit(b) == IF b < 8 * bytes_to_read
                     THEN ByteBit(f.m_filter_u8[byte_index + (b \div 8) + 1], b % 8)
                     ELSE 0
        w == f.m_fingerprint_mask
    IN BitsValue([j \in 0 .. w - 1 |-> RawBit(bit_offset + j)], w)

\* set_filter_value, window branch: the 8 bytes from byte_index are loaded,
\* m_fingerprint_bits bits are cleared at bit_offset and
\* (value & m_fingerprint_mask) << bit_offset is or-ed in
SetWindow(f, byte_index, bit_offset, value) ==
    LET val_64 == AndMask(value, f.m_fingerprint_mask)
        WindowBit(old, wb) ==
            LET cleared == IF wb >= bit_offset /\ wb < bit_offset + f.m_fingerprint_bits
                           THEN 0 ELSE old
                set == IF wb >= bit_offset THEN NatBit(val_64, wb - bit_offset) ELSE 0
            IN IF cleared = 1 \/ set = 1 THEN 1 ELSE 0
    IN [i \in 1 .. Len(f.m_filter_u8) |->
            IF i - 1 >= byte_index /\ i - 1 < byte_index + 8
            THEN BitsValue([b \in 0 .. 7 |->
                     WindowBit(ByteBit(f.m_filter_u8[i], b), 8 * (i - 1 - byte_index) + b)], 8)
            ELSE f.m_filter_u8[i]]

RECURSIVE SetTail(_, _, _, _, _)
\* set_filter_value, boundary branch: byte by byte until the bits or the
\* array run out
SetTail(u8, bits_remaining, current_bit, current_byte, temp_val) ==
    IF ~(bits_remaining > 0 /\ current_byte < Len(u8)) THEN u8
    ELSE LET bits_in_this_byte == Min(8 - current_bit, bits_remaining)
             mask == ((Pow2(bits_in_this_byte) - 1) * Pow2(current_bit)) % 256
             byte_val == ((temp_val % Pow2(bits_in_this_byte)) * Pow2(current_bit)) % 256
             old == u8[current_byte + 1]
             new == BitsValue([b \in 0 .. 7 |->
                        IF ByteBit(byte_val, b) = 1 THEN 1
                        ELSE IF ByteBit(mask, b) = 1 THEN 0
                        ELSE ByteBit(old, b)], 8)
         IN SetTail([u8 EXCEPT ![current_byte + 1] = new],
                    bits_remaining - bits_in_this_byte, 0, current_byte + 1,
                    temp_val \div Pow2(bits_in_this_byte))

\* set_filter_value: the member array after the call
set_filter_value(f, pos, value) ==
    LET bit_index == pos * f.m_fingerprint_bits
        byte_index == bit_index \div 8
        bit_offset == bit_index % 8
    IN IF byte_index + 8 <= Len(f.m_filter_u8)
       THEN SetWindow(f, byte_index, bit_offset, value)
       ELSE SetTail(f.m_filter_u8, f.m_fingerprint_bits, bit_offset, byte_index, value)

\* Hash words hash_key can return, reduced to the parts the filter uses:
\* o0, o1, o2 are fast_range(h), fast_range(h1), fast_range(h2) over the
\* segment length, low is h's low 32 bits.  The three ranges and the low bits
\* read disjoint bit fields of h, so every combination is a possible word.
\* The ranges are drawn from the first and the last slot of a segment.
HashOffsets(segment_length) == {0, Max(segment_length, 1) - 1}

LowWords == {0, 5}

HashOutputs(segment_length) ==
    [o0 : HashOffsets(segment_length), o1 : HashOffsets(segment_length),
     o2 : HashOffsets(segment_length), low : LowWords]

\* get_locations_and_fingerprint, from the word h = hash_key(key, m_seed)
get_locations_and_fingerprint(f, h) ==
    LET masked == AndMask(h.low, f.m_fingerprint_mask)
    IN [p0 |-> h.o0,
        p1 |-> h.o1 + f.m_segment_length,
        p2 |-> h.o2 + 2 * f.m_segment_length,
        fp |-> IF masked = 0 THEN 1 ELSE masked]

\* BinaryFuseFilter::possibly_contains, hk = hash_key under the stored seed
fuse_possibly_contains(f, hk, value) ==
    IF f.m_filter_u8 = <<>> THEN FALSE
    ELSE LET l == get_locations_and_fingerprint(f, hk[value])
             result == BitXor(BitXor(get_filter_value(f, l.p0), get_filter_value(f, l.p1)),
                              get_filter_value(f, l.p2))
         IN result = l.fp

RECURSIVE BuildIndex(_, _, _)
\* try_construct phase 2: counts (uint8_t) and xor of key indices per slot
BuildIndex(hashes, i, st) ==
    IF i > Len(hashes) THEN st
    ELSE LET h == hashes[i]
             Touch(s, p) == [s EXCEPT !.counts[p] = (@ + 1) % 256,
                                      !.xor_keys[p] = BitXor(@, i - 1)]
         IN BuildIndex(hashes, i + 1, Touch(Touch(Touch(st, h.p0), h.p1), h.p2))

RECURSIVE InitQueue(_, _, _, _)
InitQueue(counts, i, array_size, q) ==
    IF i >= array_size THEN q
    ELSE InitQueue(counts, i + 1, array_size, IF counts[i] = 1 THEN Append(q, i) ELSE q)

RECURSIVE Peel(_, _, _)
\* try_construct phase 3
Peel(hashes, st, head) ==
    IF head >= Len(st.q) THEN st
    ELSE LET pos == st.q[head + 1]
         IN IF st.counts[pos] = 1
            THEN LET k == st.xor_keys[pos]
                     h == hashes[k + 1]
                     Relax(s, p) ==
                         LET c == (s.counts[p] - 1) % 256
                         IN [s EXCEPT !.xor_keys[p] = BitXor(@, k),
                                      !.counts[p] = c,
                                      !.q = IF c = 1 THEN Append(@, p) ELSE @]
                     pushed == [st EXCEPT !.stack = Append(@, <<k, pos>>)]
                 IN Peel(hashes, Relax(Relax(Relax(pushed, h.p0), h.p1), h.p2), head + 1)
            ELSE Peel(hashes, st, head + 1)

RECURSIVE Assign(_, _, _, _)
\* try_construct phase 4: the stack is walked from its top
Assign(f, hashes, stack, i) ==
    IF i = 0 THEN f
    ELSE LET k == stack[i][1]
             pos == stack[i][2]
             h == hashes[k + 1]
             xor_val == BitXor(BitXor(get_filter_value(f, h.p0), get_filter_value(f, h.p1)),
                               get_filter_value(f, h.p2))
         IN Assign([f EXCEPT !.m_filter_u8 = set_filter_value(f, pos, BitXor(h.fp, xor_val))],
                   hashes, stack, i - 1)

\* try_construct phases 1 to 3: the hashes of the buffered keys and the stack
\* of (key index, slot) pairs that peeling produced
PeelKeys(f, hk) ==
    LET n == Len(f.m_keys_buffer)
        hashes == [i \in 1 .. n |-> get_locations_and_fingerprint(f, hk[f.m_keys_buffer[i]])]
        slots == 0 .. f.m_array_size - 1
        indexed == BuildIndex(hashes, 1, [counts |-> [p \in slots |-> 0],
                                          xor_keys |-> [p \in slots |-> 0],
                                          q |-> <<>>, stack |-> <<>>])
        queued == [indexed EXCEPT !.q = InitQueue(indexed.counts, 0, f.m_array_size, <<>>)]
    IN [hashes |-> hashes, stack |-> Peel(hashes, queued, 0).stack]

\* BinaryFuseFilter::try_construct, had it gone on to the assignment whatever
\* the size of the stack
try_construct_ignoring_stack(f, hk) ==
    LET zeroed == [f EXCEPT !.m_filter_u8 = Zeros(Len(f.m_filter_u8))]
        peeled == PeelKeys(f, hk)
    IN [ok |-> TRUE,
        f |-> Assign(zeroed, peeled.hashes, peeled.stack, Len(peeled.stack))]

\* BinaryFuseFilter::try_construct: whether peeling placed every key, and the
\* object afterwards
try_construct(f, hk) ==
    LET zeroed == [f EXCEPT !.m_filter_u8 = Zeros(Len(f.m_filter_u8))]
        peeled == PeelKeys(f, hk)
    IN IF Len(peeled.stack) # Len(f.m_keys_buffer)
       THEN [ok |-> FALSE, f |-> zeroed]
       ELSE [ok |-> TRUE,
             f |-> Assign(zeroed, peeled.hashes, peeled.stack, Len(peeled.stack))]

FuseKeys == {"a", "b"}

\* the orders in which a flat_hash_set can be iterated
Orders(S) ==
    {o \in [1 .. Cardinality(S) -> S] : \A i, j \in 1 .. Cardinality(S) : o[i] = o[j] => i = j}

\* Seeds below MaxCollidingSeeds may hash the keys to an unpeelable
\* assignment.  An "adversarial" key set hashes every key to the same word
\* under every seed.
MaxCollidingSeeds == 1

CollidingWord == [o0 |-> 0, o1 |-> 0, o2 |-> 0, low |-> 5]

HashChoices(f, env, seed) ==
    LET all == [FuseKeys -> HashOutputs(f.m_segment_length)]
    IN IF env = "adversarial" THEN {[k \in FuseKeys |-> CollidingWord]}
       ELSE IF seed < MaxCollidingSeeds THEN all
       ELSE {hk \in all : Len(PeelKeys(f, hk).stack) = Len(f.m_keys_buffer)}

\* BinaryFuseFilter(key_set, false_positive_rate) up to the call of construct_filter
\* BinaryFuseFilter::add, had it reseeded the filter before throwing
fuse_add_reseeding(f, value) == [threw |-> TRUE, f |-> [f EXCEPT !.m_seed = @ + 1]]

\* BinaryFuseFilter::add: throws std::logic_error; no member is touched
fuse_add(f, value) == [threw |-> TRUE, f |-> f]

\* ProbabilisticFilter::add on a wrapper whose m_impl is a BinaryFuseFilter:
\* m_impl is not null, the call is forwarded and what it throws propagates
forwarded_add(f, value) == fuse_add(f, value)

NoAddCall == [called |-> FALSE, through_wrapper |-> FALSE, threw |-> FALSE, unchanged |-> FALSE]

InitFuse ==
    /\ fuse_keys \in SUBSET FuseKeys
    /\ fuse_env \in IF Cardinality(fuse_keys) >= 2 THEN {"benign", "adversarial"}
                                                   ELSE {"benign"}
    /\ \E p \in FuseRates :
         \E w \in FingerprintMaskWidths(compute_fingerprint_bits(p)) :
           \E o \in Orders(fuse_keys) :
             fuse = [BinaryFuseFilter(Cardinality(fuse_keys), p, w) EXCEPT !.m_keys_buffer = o]
    /\ fuse_h \in HashChoices(fuse, fuse_env, 0)
    /\ fuse_phase = "constructing"
    /\ fuse_query = NoQuery
    /\ fuse_add_call = NoAddCall

\* construct_filter: one pass of the seed loop, or the return for no keys
ConstructFilter ==
    /\ fuse_phase = "constructing"
    /\ IF fuse.m_keys_buffer = <<>>
       THEN /\ fuse_phase' = "built"
            /\ UNCHANGED <<fuse, fuse_h>>
       ELSE \E r \in {try_construct(fuse, fuse_h)} :
               IF r.ok
               THEN /\ fuse' = [r.f EXCEPT !.m_keys_buffer = <<>>]
                    /\ fuse_phase' = "built"
                    /\ UNCHANGED fuse_h
               ELSE /\ fuse' = [r.f EXCEPT !.m_seed = @ + 1]
                    /\ IF fuse.m_seed + 1 < max_attempts
                       THEN /\ fuse_phase' = "constructing"
                            /\ fuse_h' \in HashChoices(fuse, fuse_env, fuse.m_seed + 1)
                       ELSE /\ fuse_phase' = "failed"
                            /\ UNCHANGED fuse_h
    /\ UNCHANGED <<fuse_keys, fuse_env, fuse_query, fuse_add_call>>
    /\ UNCHANGED notFuse

FusePossiblyContains(value) ==
    /\ fuse_phase = "built"
    /\ fuse_query' = [value |-> value,
                      answer |-> fuse_possibly_contains(fuse, fuse_h, value),
                      asked |-> TRUE]
    /\ UNCHANGED <<fuse, fuse_keys, fuse_env, fuse_h, fuse_phase, fuse_add_call>>
    /\ UNCHANGED notFuse

\* add, called on the filter itself or through a ProbabilisticFilter that
\* holds it: after construction from keys, or on a filter whose members are
\* as BinaryFuseFilter(n, p) left them
FuseAdd(value, through_wrapper) ==
    /\ fuse_phase = "built" \/ (fuse_phase = "constructing" /\ fuse.m_seed = 0)
    /\ \E r \in {IF through_wrapper THEN forwarded_add(fuse, value)
                  ELSE fuse_add(fuse, value)} :
          /\ fuse' = r.f
          /\ fuse_add_call' =
                 [called |-> TRUE, through_wrapper |-> through_wrapper, threw |-> r.threw,
                  unchanged |-> /\ r.f.m_filter_u8 = fuse.m_filter_u8
                                /\ r.f.m_seed = fuse.m_seed
                                /\ r.f.m_segment_length = fuse.m_segment_length
                                /\ r.f.m_array_size = fuse.m_array_size]
    /\ UNCHANGED <<fuse_keys, fuse_env, fuse_h, fuse_phase, fuse_query>>
    /\ UNCHANGED notFuse

NextFuse ==
    \/ ConstructFilter
    \/ \E value \in FuseKeys : FusePossiblyContains(value)
    \/ \E value \in FuseKeys, through_wrapper \in BOOLEAN : FuseAdd(value, through_wrapper)

\* C2: once construction from the key set S has succeeded, every key of S has
\* get_filter_value(pos0) ^ get_filter_value(pos1) ^ get_filter_value(pos2)
\* equal to its fingerprint under the stored seed, so possibly_contains is true.
C2_BuiltKeysMatch ==
    (fuse_phase = "built") =>
        \A k \in fuse_keys :
            LET l == get_locations_and_fingerprint(fuse, fuse_h[k])
            IN /\ BitXor(BitXor(get_filter_value(fuse, l.p0), get_filter_value(fuse, l.p1)),
                         get_filter_value(fuse, l.p2)) = l.fp
               /\ fuse_possibly_contains(fuse, fuse_h, k)

IdleFuse ==
    /\ fuse = EmptyBinaryFuseFilter
    /\ fuse_keys = {}
    /\ fuse_env = "benign"
    /\ fuse_h = <<>>
    /\ fuse_phase = "idle"
    /\ fuse_query = NoQuery
    /\ fuse_add_call = NoAddCall

\* ---------------------------------------------------------------------------
\* NGramPrefixFilter
\* ---------------------------------------------------------------------------

MaxKeyLen == 2

MaxKeys == 3

Alphabet == {"a", "b"}

\* strings are sequences of characters
RECURSIVE StringsOfLen(_)
StringsOfLen(n) ==
    IF n = 0 THEN {<<>>}
    ELSE {Append(s, c) : s \in StringsOfLen(n - 1), c \in Alphabet}

Strings == UNION {StringsOfLen(n) : n \in 0 .. MaxKeyLen}

\* std::string::substr(pos, count)
substr(s, pos, count) == SubSeq(s, pos + 1, Min(pos + count, Len(s)))

RECURSIVE SumOver(_, _)
\* the sum of f[x] over the elements x of S
SumOver(f, S) ==
    IF S = {} THEN 0
    ELSE LET x == CHOOSE y \in S : TRUE IN f[x] + SumOver(f, S \ {x})

\* The inner filter a length class gets from
\* ProbabilisticFilter(internal_filter_type, key_set, rate): it answers true
\* for the items it was built from and for the false positives of its hash.
InnerFilter(items, false_positives) ==
    [items |-> items, accepts |-> items \cup false_positives]

inner_possibly_contains(filter, value) == value \in filter.accepts

\* NGramPrefixFilter::add, folded over the key set: length -> keys of that length
LengthKeyMap(key_set) ==
    [length \in {Len(k) : k \in key_set} |-> {k \in key_set : Len(k) = length}]

\* round(ln(K / -ln(1 - T)) / ln A) for T = 0.01 and A = 26: the quotient is
\* 1.41 for K = 1, between 1.62 and 2.49 for 2 <= K <= 34, and between 2.50
\* and 3.49 for 35 <= K <= 900
RoundedLogKeyCount(key_count) ==
    IF key_count < 2 THEN 1 ELSE IF key_count < 35 THEN 2 ELSE 3

\* NGramPrefixFilter::calculate_n
calculate_n(length_key_map) ==
    LET lengths == DOMAIN length_key_map
        total_length == SumOver([l \in lengths |-> l * Cardinality(length_key_map[l])], lengths)
        key_count == SumOver([l \in lengths |-> Cardinality(length_key_map[l])], lengths)
    IN IF key_count = 0 THEN 0
       ELSE Min(Max(1, RoundedLogKeyCount(key_count)), total_length \div key_count)

\* the n-grams of one key: substr(pos, n) for pos + n <= size
NGramsOf(key, n) == {substr(key, pos, n) : pos \in {q \in 0 .. Len(key) : q + n <= Len(key)}}

\* NGramPrefixFilter::extract_ngrams
extract_ngrams(length_key_map, n) ==
    IF n = 0 THEN <<>>
    ELSE [length \in {l \in DOMAIN length_key_map : ~(l < n)} |->
              UNION {NGramsOf(key, n) : key \in length_key_map[length]}]

\* NGramPrefixFilter::construct_filters
construct_filters(length_key_map, n, length_n_gram_map, false_positives) ==
    [length \in DOMAIN length_key_map |->
        IF length < n
        THEN InnerFilter(length_key_map[length], false_positives)
        ELSE IF length \notin DOMAIN length_n_gram_map \/ length_n_gram_map[length] = {}
        THEN InnerFilter(length_key_map[length], false_positives)
        ELSE InnerFilter(length_n_gram_map[length], false_positives)]

\* NGramPrefixFilter(key_set, false_positive_rate)
NGramPrefixFilter(key_set, false_positives) ==
    LET length_key_map == LengthKeyMap(key_set)
        n == calculate_n(length_key_map)
        length_n_gram_map == extract_ngrams(length_key_map, n)
    IN [m_length_key_map |-> length_key_map,
        m_n |-> n,
        m_length_n_gram_map |-> length_n_gram_map,
        m_length_filter_map |->
            construct_filters(length_key_map, n, length_n_gram_map, false_positives)]

\* NGramPrefixFilter::possibly_contains, had its loop stopped after the first
\* n-gram
ngram_possibly_contains_first_only(f, value) ==
    IF Len(value) \notin DOMAIN f.m_length_filter_map THEN FALSE
    ELSE LET filter == f.m_length_filter_map[Len(value)]
         IN IF Len(value) < f.m_n
            THEN inner_possibly_contains(filter, value)
            ELSE inner_possibly_contains(filter, substr(value, 0, f.m_n))

\* NGramPrefixFilter::possibly_contains
ngram_possibly_contains(f, value) ==
    IF Len(value) \notin DOMAIN f.m_length_filter_map THEN FALSE
    ELSE LET filter == f.m_length_filter_map[Len(value)]
         IN IF Len(value) < f.m_n
            THEN inner_possibly_contains(filter, value)
            ELSE \A pos \in {q \in 0 .. Len(value) : q + f.m_n <= Len(value)} :
                     inner_possibly_contains(filter, substr(value, pos, f.m_n))

NoStringQuery == [value |-> <<>>, answer |-> FALSE, asked |-> FALSE]

EmptyNGramPrefixFilter ==
    [m_length_key_map |-> <<>>, m_n |-> 0, m_length_n_gram_map |-> <<>>,
     m_length_filter_map |-> <<>>]

\* the object before its key-set constructor has run
InitNGram ==
    /\ ngram_keys = {}
    /\ ngram_fp \in {{}} \cup {{s} : s \in Strings}
    /\ ngram = EmptyNGramPrefixFilter
    /\ ngram_query = NoStringQuery

\* NGramPrefixFilter(key_set, false_positive_rate)
NGramConstruct(key_set) ==
    /\ ngram_keys = {}
    /\ ngram_keys' = key_set
    /\ ngram' = NGramPrefixFilter(key_set, ngram_fp)
    /\ UNCHANGED <<ngram_fp, ngram_query>>
    /\ UNCHANGED notNGram

NGramPossiblyContains(value) ==
    /\ ngram_query' = [value |-> value,
                       answer |-> ngram_possibly_contains(ngram, value),
                       asked |-> TRUE]
    /\ UNCHANGED <<ngram, ngram_keys, ngram_fp>>
    /\ UNCHANGED notNGram

NextNGram ==
    \/ \E key_set \in {S \in SUBSET Strings : S # {} /\ Cardinality(S) <= MaxKeys} :
           NGramConstruct(key_set)
    \/ \E value \in Strings : NGramPossiblyContains(value)

IdleNGram ==
    /\ ngram = EmptyNGramPrefixFilter
    /\ ngram_keys = {}
    /\ ngram_fp = {}
    /\ ngram_query = NoStringQuery

\* ---------------------------------------------------------------------------
\* VariableDictionaryWriter
\* ---------------------------------------------------------------------------

DictValues == {"a", "b"}

\* m_max_id handed to open
MaxId == 1

NoFile == [present |-> FALSE]

NewDictionaryWriter ==
    [m_is_open |-> FALSE, m_value_to_id |-> <<>>, m_next_id |-> 0, m_max_id |-> 0,
     m_use_bloom_filter |-> FALSE, m_bloom_filter_values |-> {},
     m_bloom_filter |-> EmptyBloomFilter]

\* DictionaryWriter::open
dw_open(w, max_id) ==
    [w EXCEPT !.m_next_id = 0, !.m_max_id = max_id, !.m_is_open = TRUE]

\* VariableDictionaryWriter::open_with_bloom_filter
open_with_bloom_filter(w, max_id) ==
    [dw_open(w, max_id) EXCEPT !.m_use_bloom_filter = TRUE]

\* VariableDictionaryWriter::add_entry: the writer afterwards and how the
\* call ended ("existing", "new", or "throw" for OperationFailed)
add_entry(w, value) ==
    IF value \in DOMAIN w.m_value_to_id
    THEN [w |-> w, result |-> "existing"]
    ELSE IF w.m_next_id > w.m_max_id
    THEN [w |-> w, result |-> "throw"]
    ELSE [w |-> [w EXCEPT !.m_next_id = @ + 1,
                          !.m_value_to_id = [v \in DOMAIN @ \cup {value} |->
                                                IF v = value THEN w.m_next_id ELSE @[v]],
                          !.m_bloom_filter_values =
                              IF w.m_use_bloom_filter THEN @ \cup {value} ELSE @],
          result |-> "new"]

RECURSIVE AddAll(_, _, _)
\* the loop of write_bloom_filter: m_bloom_filter.add(value) for each value
AddAll(f, h, values) ==
    IF values = {} THEN f
    ELSE LET value == CHOOSE v \in values : TRUE
         IN AddAll(bloom_add(f, h, value), h, values \ {value})

\* The filter built at write time: the same as write_bloom_filter builds,
\* but from the values still in m_value_to_id.
write_bloom_filter_from_map(w, h) ==
    [w |-> [w EXCEPT !.m_bloom_filter =
                        AddAll(BloomFilter(Cardinality(DOMAIN w.m_value_to_id), "0.07"), h,
                               DOMAIN w.m_value_to_id),
                    !.m_bloom_filter_values = {}],
     file |-> [present |-> TRUE,
               filter |-> AddAll(BloomFilter(Cardinality(DOMAIN w.m_value_to_id), "0.07"), h,
                                 DOMAIN w.m_value_to_id)]]

\* VariableDictionaryWriter::write_bloom_filter: the writer afterwards and
\* the filter file it wrote
write_bloom_filter(w, h) ==
    IF ~w.m_use_bloom_filter THEN [w |-> w, file |-> NoFile]
    ELSE LET actual_entries == Cardinality(w.m_bloom_filter_values)
             built == AddAll(BloomFilter(actual_entries, "0.07"), h, w.m_bloom_filter_values)
         IN [w |-> [w EXCEPT !.m_bloom_filter = built, !.m_bloom_filter_values = {}],
             file |-> [present |-> TRUE, filter |-> built]]

InitDict ==
    /\ sha \in HashFunctions(DictValues)
    /\ dw = NewDictionaryWriter
    /\ dw_file = NoFile
    /\ dw_passed = {}
    /\ dw_removed = {}
    /\ dw_result = "none"

\* open: the dictionary is opened without a filter
DWOpen(max_id) ==
    /\ ~dw.m_is_open
    /\ dw' = dw_open(dw, max_id)
    /\ dw_passed' = {}
    /\ dw_removed' = {}
    /\ dw_file' = NoFile
    /\ dw_result' = "none"
    /\ UNCHANGED notDict

DWOpenWithBloomFilter(max_id) ==
    /\ ~dw.m_is_open
    /\ dw' = open_with_bloom_filter(dw, max_id)
    /\ dw_passed' = {}
    /\ dw_removed' = {}
    /\ dw_file' = NoFile
    /\ dw_result' = "none"
    /\ UNCHANGED notDict

DWAddEntry(value) ==
    /\ dw.m_is_open
    /\ LET r == add_entry(dw, value)
       IN /\ dw' = r.w
          /\ dw_result' = r.result
          /\ dw_passed' = IF r.result # "throw" /\ dw.m_use_bloom_filter
                          THEN dw_passed \cup {value} ELSE dw_passed
    /\ UNCHANGED <<dw_file, dw_removed>>
    /\ UNCHANGED notDict

\* a value leaves the in-memory map (an invariant value moved to the MPT)
DWRemoveValue(value) ==
    /\ dw.m_is_open
    /\ value \in DOMAIN dw.m_value_to_id
    /\ dw' = [dw EXCEPT !.m_value_to_id = [v \in DOMAIN @ \ {value} |-> @[v]]]
    /\ dw_removed' = dw_removed \cup {value}
    /\ dw_result' = "removed"
    /\ UNCHANGED <<dw_file, dw_passed>>
    /\ UNCHANGED notDict

\* close: the filter is written, then the map is cleared
DWClose ==
    /\ dw.m_is_open
    /\ LET r == write_bloom_filter(dw, sha)
       IN /\ dw' = [r.w EXCEPT !.m_value_to_id = <<>>, !.m_is_open = FALSE]
          /\ dw_file' = r.file
    /\ dw_result' = "closed"
    /\ UNCHANGED <<dw_passed, dw_removed>>
    /\ UNCHANGED notDict

NextDict ==
    \/ \E max_id \in 0 .. MaxId : DWOpen(max_id)
    \/ \E max_id \in 0 .. MaxId : DWOpenWithBloomFilter(max_id)
    \/ \E value \in DictValues : DWAddEntry(value)
    \/ \E value \in DictValues : DWRemoveValue(value)
    \/ DWClose

IdleDict ==
    /\ dw = NewDictionaryWriter
    /\ dw_file = NoFile
    /\ dw_passed = {}
    /\ dw_removed = {}
    /\ dw_result = "none"

\* ---------------------------------------------------------------------------
\* DictionaryReader (variable dictionary) and Output::should_load_variable_dictionary
\* ---------------------------------------------------------------------------

\* values the archive's variable dictionary may hold
ReaderValues == {"a", "b*"}

\* boost::algorithm::to_upper_copy
to_upper_copy(str) == IF str = "a" THEN "A" ELSE IF str = "b*" THEN "B*" ELSE str

\* A dictionary filter built with BloomFilter(|values|, 0.07) from a set of values
BuiltBloomFilter(h, values) == AddAll(BloomFilter(Cardinality(values), "0.07"), h, values)

\* The filter section of an archive: absent, the bytes of a written filter
\* after the kind byte, or a proper prefix of them.
FilterSections(h) ==
    LET Body(S) == Tail(bloom_write_to_file(BuiltBloomFilter(h, S)))
    IN {[present |-> FALSE, bytes |-> <<>>]}
       \cup UNION {{[present |-> TRUE, bytes |-> SubSeq(Body(values), 1, n)] :
                        n \in {12, Len(Body(values)) - 1, Len(Body(values))}} :
                    values \in SUBSET ReaderValues}

NewDictionaryReader ==
    [m_is_open |-> TRUE, m_entries |-> {}, m_bloom_filter |-> EmptyBloomFilter,
     m_bloom_filter_loaded |-> FALSE, m_use_bloom_filter |-> TRUE]

\* DictionaryReader::load_bloom_filter: the reader afterwards and the value
\* returned.  A missing section makes checkout_reader_for_section throw.
load_bloom_filter(r, section) ==
    IF ~section.present
    THEN [r |-> [r EXCEPT !.m_bloom_filter_loaded = FALSE], success |-> FALSE]
    ELSE LET read == bloom_read_from_file(r.m_bloom_filter, section.bytes, 0)
         IN [r |-> [r EXCEPT !.m_bloom_filter = read.f,
                             !.m_bloom_filter_loaded = IF read.ok THEN TRUE ELSE @],
             success |-> read.ok]

has_bloom_filter(r) == r.m_bloom_filter_loaded

\* DictionaryReader::bloom_filter_might_contain
bloom_filter_might_contain(r, h, search_string) ==
    IF ~r.m_bloom_filter_loaded \/ ~r.m_use_bloom_filter THEN TRUE
    ELSE bloom_possibly_contains(r.m_bloom_filter, h, search_string)

\* DictionaryReader::get_entry_matching_value: the values of the matching entries
get_entry_matching_value(r, h, search_string, ignore_case) ==
    IF ~ignore_case /\ r.m_bloom_filter_loaded /\ r.m_use_bloom_filter
       /\ ~bloom_possibly_contains(r.m_bloom_filter, h, search_string)
    THEN {}
    ELSE IF ~ignore_case
    THEN {e \in r.m_entries : e = search_string}
    ELSE {e \in r.m_entries : to_upper_copy(e) = to_upper_copy(search_string)}

\* Search expressions.  A FilterExpr carries its operation, whether its
\* operand is a variable string (the column matches VarStringT and
\* as_var_string succeeds), and the string as_var_string gives; every
\* expression carries is_inverted().
FilterExpr(op, var_string, query_string) ==
    [kind |-> "FilterExpr", op |-> op, var_string |-> var_string,
     query_string |-> query_string, ops |-> <<>>, inverted |-> FALSE]

AndExpr(ops) ==
    [kind |-> "AndExpr", op |-> "", var_string |-> FALSE, query_string |-> "", ops |-> ops,
     inverted |-> FALSE]

OrExpr(ops) ==
    [kind |-> "OrExpr", op |-> "", var_string |-> FALSE, query_string |-> "", ops |-> ops,
     inverted |-> FALSE]

Queries ==
    {FilterExpr("EQ", TRUE, "a"),
     FilterExpr("EQ", TRUE, "a*"),
     FilterExpr("EQ", FALSE, "a"),
     AndExpr(<<FilterExpr("EQ", TRUE, "a"), FilterExpr("EQ", TRUE, "b\\*")>>),
     OrExpr(<<FilterExpr("EXISTS", TRUE, "a"), FilterExpr("NEQ", TRUE, "b\\*")>>),
     AndExpr(<<>>)}

\* ast::has_unescaped_wildcards
has_unescaped_wildcards(str) == str = "a*"

\* clp::string_utils::unescape_string
unescape_string(str) == IF str = "b\\*" THEN "b*" ELSE str

has_only_expression_operands(expr) == expr.kind \in {"AndExpr", "OrExpr"}

RECURSIVE extract_var_search_strings(_)
\* Output::extract_var_search_strings
extract_var_search_strings(expr) ==
    IF has_only_expression_operands(expr)
    THEN UNION {extract_var_search_strings(expr.ops[i]) : i \in 1 .. Len(expr.ops)}
    ELSE IF expr.kind # "FilterExpr" THEN {}
    ELSE IF expr.op \in {"EXISTS", "NEXISTS"} THEN {}
    ELSE IF expr.var_string /\ ~has_unescaped_wildcards(expr.query_string)
    THEN {unescape_string(expr.query_string)}
    ELSE {}

\* should_load_variable_dictionary, but skipping as soon as one string is rejected
should_load_if_none_rejected(r, h, expr, ignore_case) ==
    LET search_strings == extract_var_search_strings(expr)
        bloom_filter_rejects ==
            Cardinality({str \in search_strings : ~bloom_filter_might_contain(r, h, str)})
    IN IF ~has_bloom_filter(r) THEN TRUE
       ELSE IF search_strings = {} THEN TRUE
       ELSE IF ignore_case THEN TRUE
       ELSE bloom_filter_rejects = 0

\* Output::should_load_variable_dictionary
should_load_variable_dictionary(r, h, expr, ignore_case) ==
    LET search_strings == extract_var_search_strings(expr)
        bloom_filter_passes ==
            Cardinality({str \in search_strings : bloom_filter_might_contain(r, h, str)})
    IN IF ~has_bloom_filter(r) THEN TRUE
       ELSE IF search_strings = {} THEN TRUE
       ELSE IF ignore_case THEN TRUE
       ELSE bloom_filter_passes > 0

NoCall == [called |-> FALSE, result |-> TRUE]

InitReader ==
    /\ sha \in [ReaderValues -> [h1 : HashWords, h2 : {1}]]
    /\ dr = NewDictionaryReader
    /\ dr_load = "none"
    /\ out_call = NoCall
    /\ stray_bit \in BOOLEAN

DRLoadBloomFilter ==
    /\ dr.m_is_open
    /\ \E section \in FilterSections(sha) :
           LET r == load_bloom_filter(dr, section)
           IN /\ dr' = r.r
              /\ dr_load' = IF r.success THEN "true" ELSE "false"
    /\ UNCHANGED <<out_call, stray_bit>>
    /\ UNCHANGED notReader

DRSetUseBloomFilter(use_bloom_filter) ==
    /\ dr' = [dr EXCEPT !.m_use_bloom_filter = use_bloom_filter]
    /\ UNCHANGED <<dr_load, out_call, stray_bit>>
    /\ UNCHANGED notReader

\* The dictionary step of Output::filter after the filter load: the variable
\* dictionary is read unless should_load_variable_dictionary says to skip it.
OutputShouldLoad(expr, ignore_case) ==
    LET load == should_load_variable_dictionary(dr, sha, expr, ignore_case)
    IN /\ out_call' = [called |-> TRUE, result |-> load]
       /\ dr' = IF load THEN [dr EXCEPT !.m_entries = ReaderValues] ELSE dr
       /\ UNCHANGED <<dr_load, stray_bit>>
    /\ UNCHANGED notReader

NextReader ==
    \/ DRLoadBloomFilter
    \/ \E use_bloom_filter \in BOOLEAN : DRSetUseBloomFilter(use_bloom_filter)
    \/ \E expr \in Queries, ignore_case \in BOOLEAN : OutputShouldLoad(expr, ignore_case)

IdleReader ==
    /\ dr = NewDictionaryReader
    /\ dr_load = "none"
    /\ out_call = NoCall
    /\ stray_bit = FALSE

\* ---------------------------------------------------------------------------
\* SchemaIntColumnFilter / SchemaStringColumnFilter
\* ---------------------------------------------------------------------------

SchemaVariants == {"int", "string"}

Columns == {1, 2}

\* int64 values, and strings as their bytes
SchemaValues(variant) == IF variant = "int" THEN {5, 42} ELSE {<<>>, <<97>>}

MaxAdds == 2

\* a column filter: m_column_values_map and m_column_count_map
EmptySchemaFilter == [m_column_values_map |-> <<>>, m_column_count_map |-> <<>>]

\* map[key] = value, inserting the key if it is new
MapPut(map, key, value) ==
    [k \in DOMAIN map \cup {key} |-> IF k = key THEN value ELSE map[k]]

\* add_value
schema_add_value(f, column_id, value) ==
    LET values == IF column_id \in DOMAIN f.m_column_values_map
                  THEN f.m_column_values_map[column_id] ELSE {}
        count == IF column_id \in DOMAIN f.m_column_count_map
                 THEN f.m_column_count_map[column_id] ELSE 0
    IN [m_column_values_map |-> MapPut(f.m_column_values_map, column_id, values \cup {value}),
        m_column_count_map |-> MapPut(f.m_column_count_map, column_id, count + 1)]

\* double(size) / double(total_count) <= m_threashold, with m_threashold =
\* 1.0 / 100.0: both quotients are the correctly rounded doubles of their
\* fractions, so they compare as the fractions do
ratio_within_threshold(size, total_count) == 100 * size <= total_count

\* the columns whose ratio lies strictly below the threshold
selected_columns_strict(f) ==
    {column_id \in DOMAIN f.m_column_values_map :
        /\ column_id \in DOMAIN f.m_column_count_map
        /\ f.m_column_count_map[column_id] > 0
        /\ ratio_within_threshold(Cardinality(f.m_column_values_map[column_id]),
                                  f.m_column_count_map[column_id] - 1)}

\* write_to_file, first loop: the columns selected for writing
selected_columns(f) ==
    {column_id \in DOMAIN f.m_column_values_map :
        /\ column_id \in DOMAIN f.m_column_count_map
        /\ f.m_column_count_map[column_id] > 0
        /\ ratio_within_threshold(Cardinality(f.m_column_values_map[column_id]),
                                  f.m_column_count_map[column_id])}

\* one value as write_to_file writes it
value_bytes(variant, value) ==
    IF variant = "int" THEN NumBytes(value, 8) ELSE NumBytes(Len(value), 8) \o value

RECURSIVE Concat(_)
Concat(seqs) == IF seqs = <<>> THEN <<>> ELSE Head(seqs) \o Concat(Tail(seqs))

\* write_to_file, second loop, for the iteration orders the hash containers took
schema_write_to_file(f, variant, column_order, value_order) ==
    NumBytes(Len(column_order), 4)
    \o Concat([i \in 1 .. Len(column_order) |->
          LET column_id == column_order[i]
              values == value_order[column_id]
          IN NumBytes(column_id, 4) \o NumBytes(Len(values), 8)
             \o Concat([j \in 1 .. Len(values) |-> value_bytes(variant, values[j])])])

RECURSIVE read_values(_, _, _, _, _)
\* read_from_file, inner loop: num_values values from offset pos
read_values(stream, pos, variant, num_values, values) ==
    IF num_values = 0 THEN [ok |-> TRUE, pos |-> pos, values |-> values]
    ELSE LET r == try_read_numeric_value(stream, pos, 8)
         IN IF ~r.ok THEN [ok |-> FALSE, pos |-> pos, values |-> values]
            ELSE IF variant = "int"
            THEN read_values(stream, r.pos, variant, num_values - 1, values \cup {r.value})
            ELSE IF r.value > Len(stream) - r.pos
            THEN [ok |-> FALSE, pos |-> pos, values |-> values]
            ELSE read_values(stream, r.pos + r.value, variant, num_values - 1,
                             values \cup {SubSeq(stream, r.pos + 1, r.pos + r.value)})

RECURSIVE read_columns(_, _, _, _, _)
\* read_from_file, outer loop
read_columns(stream, pos, variant, num_columns, f) ==
    IF num_columns = 0 THEN [ok |-> TRUE, f |-> f]
    ELSE LET r1 == try_read_numeric_value(stream, pos, 4)
             r2 == try_read_numeric_value(stream, r1.pos, 8)
             column_id == r1.value
             before == IF column_id \in DOMAIN f.m_column_values_map
                       THEN f.m_column_values_map[column_id] ELSE {}
             rv == read_values(stream, r2.pos, variant, r2.value, before)
             with_values == [f EXCEPT !.m_column_values_map = MapPut(@, column_id, rv.values)]
         IN IF ~r1.ok \/ ~r2.ok THEN [ok |-> FALSE, f |-> f]
            ELSE IF ~rv.ok THEN [ok |-> FALSE, f |-> with_values]
            ELSE read_columns(stream, rv.pos, variant, num_columns - 1,
                              [with_values EXCEPT !.m_column_count_map = MapPut(@, column_id, 0)])

\* read_from_file: whether it returned true, and the filter afterwards
schema_read_from_file(stream, variant) ==
    LET r == try_read_numeric_value(stream, 0, 4)
    IN IF ~r.ok THEN [ok |-> FALSE, f |-> EmptySchemaFilter]
       ELSE read_columns(stream, r.pos, variant, r.value, EmptySchemaFilter)

\* contains
schema_contains(f, variant, column_id, value) ==
    IF column_id \notin DOMAIN f.m_column_values_map
    THEN (IF variant = "int" THEN FALSE ELSE TRUE)
    ELSE value \in f.m_column_values_map[column_id]

\* Filters that add_value calls build: every value set with its number of
\* insertions, none (the column was never seen) or close to the threshold.
StartCounts == {99, 199}

StartFilters(variant) ==
    UNION {[m_column_values_map : [seen -> SUBSET SchemaValues(variant) \ {{}}],
            m_column_count_map : [seen -> StartCounts]] : seen \in SUBSET Columns}

\* the orders in which the values of each selected column may be iterated
ValueOrders(f) ==
    LET selected == selected_columns(f)
    IN {value_order \in [selected -> UNION {Orders(f.m_column_values_map[c]) : c \in selected}] :
           \A c \in selected : value_order[c] \in Orders(f.m_column_values_map[c])}

NoSchemaFile == [present |-> FALSE, bytes |-> <<>>, from |-> EmptySchemaFilter]

NoSchemaQuery == [asked |-> FALSE, column_absent |-> FALSE, answer |-> FALSE]

InitSchema ==
    /\ schema_variant \in SchemaVariants
    /\ schema_w \in StartFilters(schema_variant)
    /\ schema_adds = 0
    /\ schema_file = NoSchemaFile
    /\ schema_r = EmptySchemaFilter
    /\ schema_query = NoSchemaQuery

SchemaAddValue(column_id) ==
    /\ schema_adds < MaxAdds
    /\ \E value \in SchemaValues(schema_variant) :
           schema_w' = schema_add_value(schema_w, column_id, value)
    /\ schema_adds' = schema_adds + 1
    /\ UNCHANGED <<schema_variant, schema_file, schema_r, schema_query>>
    /\ UNCHANGED notSchema

SchemaWriteToFile ==
    /\ \E column_order \in Orders(selected_columns(schema_w)) :
         \E value_order \in ValueOrders(schema_w) :
           schema_file' =
                 [present |-> TRUE,
                  bytes |-> schema_write_to_file(schema_w, schema_variant, column_order,
                                                 value_order),
                  from |-> schema_w]
    /\ UNCHANGED <<schema_variant, schema_w, schema_adds, schema_r, schema_query>>
    /\ UNCHANGED notSchema

SchemaReadFromFile ==
    /\ schema_file.present
    /\ schema_r' = schema_read_from_file(schema_file.bytes, schema_variant).f
    /\ UNCHANGED <<schema_variant, schema_w, schema_adds, schema_file, schema_query>>
    /\ UNCHANGED notSchema

SchemaContains(column_id) ==
    /\ \E value \in SchemaValues(schema_variant) :
           schema_query' = [asked |-> TRUE,
                            column_absent |-> column_id \notin DOMAIN schema_r.m_column_values_map,
                            answer |-> schema_contains(schema_r, schema_variant, column_id, value)]
    /\ UNCHANGED <<schema_variant, schema_w, schema_adds, schema_file, schema_r>>
    /\ UNCHANGED notSchema

NextSchema ==
    \/ \E column_id \in Columns : SchemaAddValue(column_id)
    \/ SchemaWriteToFile
    \/ SchemaReadFromFile
    \/ \E column_id \in Columns : SchemaContains(column_id)

IdleSchema ==
    /\ schema_variant = "int"
    /\ schema_w = EmptySchemaFilter
    /\ schema_adds = 0
    /\ schema_file = NoSchemaFile
    /\ schema_r = EmptySchemaFilter
    /\ schema_query = NoSchemaQuery

\* ---------------------------------------------------------------------------
\* ProbabilisticFilter (the wrapper), PrefixSuffixFilter and FilterFile
\* ---------------------------------------------------------------------------

FileValues == {"a", "b"}

FileRates == {"0.07", "0.5"}

\* static_cast<uint8_t>(type).  The enumerators after Bloom are not declared
\* in ProbabilisticFilter.hpp; they take distinct values other than 0 and 1.
TypeValue(type) ==
    IF type = "None" THEN FilterTypeNone
    ELSE IF type = "Bloom" THEN FilterTypeBloom
    ELSE IF type = "BinaryFuse" THEN 2
    ELSE IF type = "NGramPrefix" THEN 3
    ELSE 4

FilterTypes == {"None", "Bloom", "BinaryFuse", "NGramPrefix", "PrefixSuffix"}

\* static_cast<FilterType>(type_value)
TypeOfValue(type_value) ==
    IF \E type \in FilterTypes : TypeValue(type) = type_value
    THEN CHOOSE type \in FilterTypes : TypeValue(type) = type_value
    ELSE "Unknown"

kMinLength == 3

kStride == 1

\* PrefixSuffixFilter(expected_num_elements, false_positive_rate, avg_key_length)
PrefixSuffixFilter(expected_num_elements, false_positive_rate, avg_key_length) ==
    LET estimated_items_per_key ==
            IF avg_key_length > kMinLength
            THEN (avg_key_length - kMinLength) \div kStride + 1
            ELSE 1
        total_capacity == expected_num_elements * estimated_items_per_key
    IN [m_forward_filter |-> BloomFilter(total_capacity, false_positive_rate),
        m_reverse_filter |-> BloomFilter(total_capacity, false_positive_rate)]

\* PrefixSuffixFilter::add for a non-empty value shorter than kMinLength, which
\* is its own reverse when it has one character
prefix_suffix_add(f, h, value) ==
    [m_forward_filter |-> bloom_add(f.m_forward_filter, h, value),
     m_reverse_filter |-> bloom_add(f.m_reverse_filter, h, value)]

\* PrefixSuffixFilter::possibly_contains for a value without wildcards
prefix_suffix_possibly_contains(f, h, value) ==
    IF f.m_forward_filter.m_bit_array = <<>> THEN FALSE
    ELSE bloom_possibly_contains(f.m_forward_filter, h, value)

\* PrefixSuffixFilter::write_to_file
prefix_suffix_write_to_file(f) ==
    <<TypeValue("PrefixSuffix")>> \o bloom_write_to_file(f.m_forward_filter)
        \o bloom_write_to_file(f.m_reverse_filter)

\* BinaryFuseFilter::write_to_file with write_packed_filter
fuse_write_to_file(f) ==
    <<TypeValue("BinaryFuse")>> \o NumBytes(f.m_fingerprint_bits, 4) \o NumBytes(f.m_seed, 4)
        \o NumBytes(f.m_array_size, 8) \o NumBytes(f.m_segment_length, 8)
        \o NumBytes(Len(f.m_filter_u8), 8) \o f.m_filter_u8

\* A ProbabilisticFilter: the kind of its m_impl and the object itself.
\* ProbabilisticFilter() holds a default BloomFilter.
DefaultProbabilisticFilter == [type |-> "Bloom", impl |-> EmptyBloomFilter]

\* ProbabilisticFilter::add
wrapper_add(w, h, value) ==
    IF w.type = "Bloom" THEN [w EXCEPT !.impl = bloom_add(@, h, value)]
    ELSE [w EXCEPT !.impl = prefix_suffix_add(@, h, value)]

\* ProbabilisticFilter::possibly_contains; fh gives hash_key of a BinaryFuseFilter
wrapper_possibly_contains(w, h, fh, value) ==
    IF w.type = "Bloom" THEN bloom_possibly_contains(w.impl, h, value)
    ELSE IF w.type = "BinaryFuse" THEN fuse_possibly_contains(w.impl, fh, value)
    ELSE prefix_suffix_possibly_contains(w.impl, h, value)

\* ProbabilisticFilter::write_to_file
wrapper_write_to_file(w) ==
    IF w.type = "Bloom" THEN bloom_write_to_file(w.impl)
    ELSE IF w.type = "BinaryFuse" THEN fuse_write_to_file(w.impl)
    ELSE prefix_suffix_write_to_file(w.impl)

\* ProbabilisticFilter::read_from_file from offset pos
wrapper_read_from_file(w, stream, pos) ==
    LET r == try_read_numeric_value(stream, pos, 1)
        read == bloom_read_from_file(EmptyBloomFilter, stream, r.pos)
    IN IF ~r.ok THEN [ok |-> FALSE, w |-> w]
       ELSE IF r.value # FilterTypeBloom THEN [ok |-> FALSE, w |-> w]
       ELSE [ok |-> read.ok, w |-> [type |-> "Bloom", impl |-> read.f]]

\* ProbabilisticFilter::create_empty_for_type
create_empty_for_type(type) == DefaultProbabilisticFilter

kFilterFileMagic == <<67, 76, 80, 70>>

kFilterFileVersion == 1

kFilterFlagNormalized == 1

\* the IEEE-754 double of a rate, least significant byte first
DoubleBytes(rate) ==
    IF rate = "0.07" THEN <<236, 81, 184, 30, 133, 235, 177, 63>>
    ELSE IF rate = "0.5" THEN <<0, 0, 0, 0, 0, 0, 224, 63>>
    ELSE <<0, 0, 0, 0, 0, 0, 0, 0>>

\* the rate that eight bytes hold
DoubleOfBytes(bytes) ==
    IF bytes = DoubleBytes("0.07") THEN "0.07"
    ELSE IF bytes = DoubleBytes("0.5") THEN "0.5"
    ELSE IF bytes = DoubleBytes("0") THEN "0"
    ELSE "other"

DefaultFilterConfig == [type |-> "None", false_positive_rate |-> "0", normalize |-> FALSE]

\* write_filter_file
write_filter_file(config, filter, num_elements) ==
    kFilterFileMagic \o NumBytes(kFilterFileVersion, 4)
        \o <<TypeValue(config.type)>>
        \o <<IF config.normalize THEN kFilterFlagNormalized ELSE 0>>
        \o NumBytes(0, 2)
        \o DoubleBytes(config.false_positive_rate)
        \o NumBytes(num_elements, 8)
        \o (IF config.type # "None" THEN wrapper_write_to_file(filter) ELSE <<>>)

\* read_filter_file: the value returned and the three out-parameters
read_filter_file(stream, out_config, out_filter, out_num_elements) ==
    LET failed == [ok |-> FALSE, config |-> out_config, filter |-> out_filter,
                   num_elements |-> out_num_elements]
        version == try_read_numeric_value(stream, 4, 4)
        type_value == try_read_numeric_value(stream, version.pos, 1)
        flags == try_read_numeric_value(stream, type_value.pos, 1)
        reserved == try_read_numeric_value(stream, flags.pos, 2)
        fpr == try_read_numeric_value(stream, reserved.pos, 8)
        num_elements == try_read_numeric_value(stream, fpr.pos, 8)
        config == [type |-> TypeOfValue(type_value.value),
                   false_positive_rate |->
                       DoubleOfBytes(SubSeq(stream, reserved.pos + 1, reserved.pos + 8)),
                   normalize |-> flags.value % 2 = 1]
        read == wrapper_read_from_file(create_empty_for_type(config.type), stream,
                                       num_elements.pos)
    IN IF Len(stream) < 4 \/ SubSeq(stream, 1, 4) # kFilterFileMagic THEN failed
       ELSE IF ~version.ok \/ version.value # kFilterFileVersion THEN failed
       ELSE IF ~type_value.ok \/ ~flags.ok \/ ~reserved.ok \/ ~fpr.ok \/ ~num_elements.ok
       THEN failed
       ELSE IF config.type = "None"
       THEN [ok |-> TRUE, config |-> config, filter |-> out_filter,
             num_elements |-> num_elements.value]
       ELSE [ok |-> read.ok, config |-> config, filter |-> read.w,
             num_elements |-> num_elements.value]

MaxElements == 2

\* the wrappers a writer constructs for a configuration
ConstructedFilters(type, rate) ==
    IF type = "Bloom"
    THEN {[type |-> "Bloom", impl |-> BloomFilter(n, rate)] : n \in 0 .. MaxElements}
    ELSE IF type = "BinaryFuse"
    THEN {[type |-> "BinaryFuse", impl |-> BinaryFuseFilter(n, rate, w)] :
             n \in {0, 1}, w \in FingerprintMaskWidths(compute_fingerprint_bits(rate))}
    ELSE IF type = "PrefixSuffix"
    THEN {[type |-> "PrefixSuffix", impl |-> PrefixSuffixFilter(n, rate, 1)] :
             n \in 0 .. MaxElements}
    ELSE {DefaultProbabilisticFilter}

NoFilterFile ==
    [present |-> FALSE, bytes |-> <<>>, config |-> DefaultFilterConfig,
     filter |-> DefaultProbabilisticFilter, num_elements |-> 0]

NoFilterRead ==
    [done |-> FALSE, ok |-> FALSE, config |-> DefaultFilterConfig,
     filter |-> DefaultProbabilisticFilter, num_elements |-> 0, written |-> NoFilterFile]

InitFile ==
    /\ sha \in [FileValues -> [h1 : HashWords, h2 : {1}]]
    /\ ff_config \in [type : {"None", "Bloom", "BinaryFuse", "PrefixSuffix"},
                      false_positive_rate : FileRates, normalize : BOOLEAN]
    /\ ff_filter \in ConstructedFilters(ff_config.type, ff_config.false_positive_rate)
    /\ ff_num_elements = 0
    /\ ff_file = NoFilterFile
    /\ ff_read = NoFilterRead

FFAdd(value) ==
    /\ ff_filter.type \in {"Bloom", "PrefixSuffix"}
    /\ ff_num_elements < MaxElements
    /\ ff_filter' = wrapper_add(ff_filter, sha, value)
    /\ ff_num_elements' = ff_num_elements + 1
    /\ UNCHANGED <<ff_config, ff_file, ff_read>>
    /\ UNCHANGED notFile

FFWriteFilterFile ==
    /\ ff_file' = [present |-> TRUE,
                   bytes |-> write_filter_file(ff_config, ff_filter, ff_num_elements),
                   config |-> ff_config, filter |-> ff_filter,
                   num_elements |-> ff_num_elements]
    /\ UNCHANGED <<ff_config, ff_filter, ff_num_elements, ff_read>>
    /\ UNCHANGED notFile

FFReadFilterFile ==
    /\ ff_file.present
    /\ LET r == read_filter_file(ff_file.bytes, DefaultFilterConfig,
                                 DefaultProbabilisticFilter, 0)
       IN ff_read' = [done |-> TRUE, ok |-> r.ok, config |-> r.config, filter |-> r.filter,
                      num_elements |-> r.num_elements, written |-> ff_file]
    /\ UNCHANGED <<ff_config, ff_filter, ff_num_elements, ff_file>>
    /\ UNCHANGED notFile

NextFile ==
    \/ \E value \in FileValues : FFAdd(value)
    \/ FFWriteFilterFile
    \/ FFReadFilterFile

IdleFile ==
    /\ ff_config = DefaultFilterConfig
    /\ ff_filter = DefaultProbabilisticFilter
    /\ ff_num_elements = 0
    /\ ff_file = NoFilterFile
    /\ ff_read = NoFilterRead

\* ---------------------------------------------------------------------------
\* clp-filter: filter packs and run_filter_scan
\* ---------------------------------------------------------------------------

RECURSIVE AddBytes(_, _, _, _)
AddBytes(a, b, i, carry) ==
    IF i > Len(a) THEN <<>>
    ELSE <<(a[i] + b[i] + carry) % 256>> \o AddBytes(a, b, i + 1, (a[i] + b[i] + carry) \div 256)

\* a + b for uint64_t values held as eight bytes: the carry out of the top
\* byte is lost
Add64(a, b) == AddBytes(a, b, 1, 0)

\* 2^64 - a for a non-zero uint64_t held as eight bytes
Neg64(a) == Add64([i \in 1 .. 8 |-> 255 - a[i]], NumBytes(1, 8))

\* a uint32_t held as four bytes, widened to uint64_t
Widen(bytes) == bytes \o <<0, 0, 0, 0>>

kFilterPackMagic == <<67, 76, 80, 70>>

kFilterPackVersion == 1

kFilterPackIndexMagic == <<67, 76, 80, 73>>

kFilterPackIndexVersion == 1

kFilterPackFooterSize == 32

kFilterPackIndexHeaderSize == 12

\* read_uint32_le / read_uint64_le: the bytes of the value, if they lie in data
read_le(data, offset, width) ==
    IF offset + width > Len(data) THEN [ok |-> FALSE, bytes |-> <<>>]
    ELSE [ok |-> TRUE, bytes |-> SubSeq(data, offset + 1, offset + width)]

\* encode_filter_pack_index
encode_filter_pack_index(entries) ==
    kFilterPackIndexMagic \o NumBytes(kFilterPackIndexVersion, 4) \o NumBytes(Len(entries), 4)
        \o Concat([i \in 1 .. Len(entries) |->
                      <<Len(entries[i].archive_id)>> \o entries[i].archive_id
                          \o entries[i].offset \o entries[i].size])

\* encode_filter_pack_footer
encode_filter_pack_footer(footer) ==
    kFilterPackMagic \o NumBytes(kFilterPackVersion, 4) \o footer.body_offset
        \o footer.index_offset \o footer.index_size

\* parse_filter_pack_footer
parse_filter_pack_footer(data) ==
    LET failed == [ok |-> FALSE, body_offset |-> <<>>, index_offset |-> <<>>,
                   index_size |-> <<>>]
        footer_offset == Len(data) - kFilterPackFooterSize
        version == read_le(data, footer_offset + 4, 4)
        body_offset == read_le(data, footer_offset + 8, 8)
        index_offset == read_le(data, footer_offset + 16, 8)
        index_size == read_le(data, footer_offset + 24, 8)
    IN IF Len(data) < kFilterPackFooterSize THEN failed
       ELSE IF SubSeq(data, footer_offset + 1, footer_offset + 4) # kFilterPackMagic THEN failed
       ELSE IF ~version.ok \/ NumValue(version.bytes) # kFilterPackVersion THEN failed
       ELSE IF ~body_offset.ok \/ ~index_offset.ok \/ ~index_size.ok THEN failed
       ELSE IF NumValue(Add64(index_offset.bytes, index_size.bytes)) > Len(data) THEN failed
       ELSE [ok |-> TRUE, body_offset |-> body_offset.bytes,
             index_offset |-> index_offset.bytes, index_size |-> index_size.bytes]

RECURSIVE parse_entries(_, _, _, _, _)
\* parse_filter_pack_index, the loop over num_entries entries
parse_entries(data, offset, index_end, num_entries, entries) ==
    IF num_entries = 0 THEN [ok |-> TRUE, entries |-> entries]
    ELSE IF offset >= index_end THEN [ok |-> FALSE, entries |-> entries]
    ELSE LET id_len == data[offset + 1]
             entry_offset == read_le(data, offset + 1 + id_len, 8)
             entry_size == read_le(data, offset + 1 + id_len + 8, 4)
         IN IF offset + 1 + id_len > index_end THEN [ok |-> FALSE, entries |-> entries]
            ELSE IF ~entry_offset.ok \/ ~entry_size.ok THEN [ok |-> FALSE, entries |-> entries]
            ELSE parse_entries(data, offset + 1 + id_len + 12, index_end, num_entries - 1,
                               Append(entries,
                                      [archive_id |-> SubSeq(data, offset + 2, offset + 1 + id_len),
                                       offset |-> entry_offset.bytes,
                                       size |-> entry_size.bytes]))

\* parse_filter_pack_index, for a footer whose index lies inside data
parse_filter_pack_index(data, footer) ==
    LET failed == [ok |-> FALSE, entries |-> <<>>]
        offset == NumValue(footer.index_offset)
        index_size == NumValue(footer.index_size)
        version == read_le(data, offset + 4, 4)
        num_entries == read_le(data, offset + 8, 4)
    IN IF NumValue(Add64(footer.index_offset, footer.index_size)) > Len(data) THEN failed
       ELSE IF index_size < kFilterPackIndexHeaderSize THEN failed
       ELSE IF SubSeq(data, offset + 1, offset + 4) # kFilterPackIndexMagic THEN failed
       ELSE IF ~version.ok \/ NumValue(version.bytes) # kFilterPackIndexVersion THEN failed
       ELSE IF ~num_entries.ok THEN failed
       ELSE parse_entries(data, offset + kFilterPackIndexHeaderSize, offset + index_size,
                          NumValue(num_entries.bytes), <<>>)

\* clp::string_utils::to_lower
to_lower(str) == IF str = "A" THEN "a" ELSE str

\* FilterTermExtractionResult as run_filter_scan declares it
NewFilterTermExtractionResult == [supported |-> TRUE, reason |-> "", terms |-> <<>>]

RECURSIVE collect_filter_terms_through_or(_, _, _)
\* collect_filter_terms, had it treated an OrExpr as it treats an AndExpr
collect_filter_terms_through_or(expr, inverted_context, result) ==
    LET inverted == inverted_context # expr.inverted
        RECURSIVE Children(_, _)
        Children(i, acc) ==
            IF i > Len(expr.ops) THEN acc
            ELSE IF expr.ops[i].kind = "Literal"
            THEN [acc EXCEPT !.supported = FALSE, !.reason = "non-expression-operand"]
            ELSE LET r == collect_filter_terms_through_or(expr.ops[i], inverted, acc)
                 IN IF ~r.supported THEN r ELSE Children(i + 1, r)
    IN
    IF ~result.supported THEN result
    ELSE IF inverted
    THEN [result EXCEPT !.supported = FALSE, !.reason = "inverted-expression"]
    ELSE IF expr.kind \in {"AndExpr", "OrExpr"} THEN Children(1, result)
    ELSE IF expr.kind # "FilterExpr"
    THEN [result EXCEPT !.supported = FALSE, !.reason = "unsupported-expression"]
    ELSE IF expr.op # "EQ" THEN result
    ELSE IF ~expr.var_string THEN result
    ELSE IF has_unescaped_wildcards(expr.query_string) THEN result
    ELSE [result EXCEPT !.terms = Append(@, unescape_string(expr.query_string))]

RECURSIVE collect_filter_terms(_, _, _)
\* collect_filter_terms(expr, inverted_context, result); an operand of kind
\* "Literal" is one that is no ast::Expression
collect_filter_terms(expr, inverted_context, result) ==
    LET inverted == inverted_context # expr.inverted
        RECURSIVE Children(_, _)
        Children(i, acc) ==
            IF i > Len(expr.ops) THEN acc
            ELSE IF expr.ops[i].kind = "Literal"
            THEN [acc EXCEPT !.supported = FALSE, !.reason = "non-expression-operand"]
            ELSE LET r == collect_filter_terms(expr.ops[i], inverted, acc)
                 IN IF ~r.supported THEN r ELSE Children(i + 1, r)
    IN
    IF ~result.supported THEN result
    ELSE IF inverted
    THEN [result EXCEPT !.supported = FALSE, !.reason = "inverted-expression"]
    ELSE IF expr.kind = "OrExpr"
    THEN [result EXCEPT !.supported = FALSE, !.reason = "or-expression"]
    ELSE IF expr.kind = "AndExpr" THEN Children(1, result)
    ELSE IF expr.kind # "FilterExpr"
    THEN [result EXCEPT !.supported = FALSE, !.reason = "unsupported-expression"]
    ELSE IF expr.op # "EQ" THEN result
    ELSE IF ~expr.var_string THEN result
    ELSE IF has_unescaped_wildcards(expr.query_string) THEN result
    ELSE [result EXCEPT !.terms = Append(@, unescape_string(expr.query_string))]

RECURSIVE Unique(_, _)
\* the terms in order of first occurrence
Unique(terms, seen) ==
    IF terms = <<>> THEN <<>>
    ELSE IF Head(terms) \in seen THEN Unique(Tail(terms), seen)
    ELSE <<Head(terms)>> \o Unique(Tail(terms), seen \cup {Head(terms)})

\* entry_map.find(archive_id): emplace keeps the first entry of an id
FindEntry(entries, archive_id) ==
    LET hits == {i \in 1 .. Len(entries) : entries[i].archive_id = archive_id}
    IN IF hits = {} THEN [found |-> FALSE, entry |-> <<>>]
       ELSE [found |-> TRUE, entry |-> entries[CHOOSE i \in hits : \A j \in hits : i <= j]]

\* run_filter_scan, the loop body for one archive id: "passed", "skipped", or
\* "crash" where the read outside the pack buffer reaches unmapped memory.
\* memory holds the mapped bytes that precede the pack buffer.
scan_archive(pack_bytes, memory, footer, entries, terms, terms_lower, h, archive_id) ==
    LET found == FindEntry(entries, archive_id)
        entry == found.entry
        start == Add64(footer.body_offset, entry.offset)
        end == Add64(start, Widen(entry.size))
        size == NumValue(entry.size)
        before == NumValue(Neg64(start))
        bytes == IF NumValue(start) <= Len(pack_bytes)
                 THEN SubSeq(pack_bytes, NumValue(start) + 1, NumValue(start) + size)
                 ELSE SubSeq(memory, Len(memory) - before + 1, Len(memory))
                          \o SubSeq(pack_bytes, 1, size - before)
        read == read_filter_file(bytes, DefaultFilterConfig, DefaultProbabilisticFilter, 0)
        terms_to_check == IF read.config.normalize THEN terms_lower ELSE terms
        matches == \A i \in 1 .. Len(terms_to_check) :
                       wrapper_possibly_contains(read.filter, h, <<>>, terms_to_check[i])
    IN IF ~found.found THEN "passed"
       ELSE IF NumValue(end) > Len(pack_bytes) THEN "passed"
       ELSE IF NumValue(start) > Len(pack_bytes) /\ before > Len(memory) THEN "crash"
       ELSE IF ~read.ok THEN "passed"
       ELSE IF matches THEN "passed"
       ELSE "skipped"

RECURSIVE SelectSeq2(_, _)
\* the elements of a sequence whose index is in a set, in order
SelectSeq2(seq, keep) ==
    IF seq = <<>> THEN <<>>
    ELSE SelectSeq2(SubSeq(seq, 1, Len(seq) - 1), keep)
             \o (IF Len(seq) \in keep THEN <<seq[Len(seq)]>> ELSE <<>>)

NoScanOutput ==
    [status |-> "none", supported |-> FALSE, passed |-> <<>>, total |-> 0, skipped |-> 0]

\* the strings filters are built from and queries ask for
ScanValues == {"a", "A", "b"}

\* Expression::is_inverted set
Inverted(expr) == [expr EXCEPT !.inverted = TRUE]

\* the outcome of kql::parse_kql_expression for a query string
ScanQueries ==
    {[parsed |-> FALSE, expr |-> AndExpr(<<>>)]}
        \cup {[parsed |-> TRUE, expr |-> e] :
                 e \in {FilterExpr("EQ", TRUE, "a"),
                        FilterExpr("EQ", TRUE, "A"),
                        FilterExpr("EQ", TRUE, "b"),
                        FilterExpr("EQ", TRUE, "a*"),
                        FilterExpr("EQ", FALSE, "a"),
                        FilterExpr("NEQ", TRUE, "b"),
                        Inverted(FilterExpr("EQ", TRUE, "b")),
                        AndExpr(<<FilterExpr("EQ", TRUE, "a"), FilterExpr("EQ", TRUE, "b"),
                                  FilterExpr("EQ", TRUE, "a")>>),
                        AndExpr(<<FilterExpr("EQ", TRUE, "a"),
                                  Inverted(FilterExpr("EQ", TRUE, "b"))>>),
                        OrExpr(<<FilterExpr("EQ", TRUE, "a"), FilterExpr("EQ", TRUE, "b")>>)}}

ScanArchiveIds == {<<>>, <<<<65>>>>, <<<<65>>, <<66>>>>, <<<<66>>, <<66>>>>}

\* the filter files a pack is made of, for a filter built from "a"
ScanFilterFile(h, type, normalize) ==
    LET filter == IF type = "Bloom"
                  THEN wrapper_add([type |-> "Bloom", impl |-> BloomFilter(1, "0.07")], h, "a")
                  ELSE IF type = "BinaryFuse"
                  THEN [type |-> "BinaryFuse", impl |-> BinaryFuseFilter(0, "0.07", 4)]
                  ELSE DefaultProbabilisticFilter
    IN write_filter_file([type |-> type, false_positive_rate |-> "0.07",
                          normalize |-> normalize],
                         filter, IF type = "Bloom" THEN 1 ELSE 0)

\* a pack file: body, index and footer as run_filter_pack lays them out
PackBytes(body, entries) ==
    LET index_bytes == encode_filter_pack_index(entries)
    IN body \o index_bytes
           \o encode_filter_pack_footer([body_offset |-> NumBytes(0, 8),
                                         index_offset |-> NumBytes(Len(body), 8),
                                         index_size |-> NumBytes(Len(index_bytes), 8)])

\* Pack files a scan can be given: packs run_filter_pack wrote, and files
\* whose index or footer holds other numbers
ScanPacks(h) ==
    LET plain == ScanFilterFile(h, "Bloom", FALSE)
        normalized == ScanFilterFile(h, "Bloom", TRUE)
        none == ScanFilterFile(h, "None", FALSE)
        fuse_file == ScanFilterFile(h, "BinaryFuse", FALSE)
        body == Tail(plain) \o plain \o normalized \o none \o fuse_file
        at_plain == Len(plain) - 1
        at_normalized == at_plain + Len(plain)
        at_none == at_normalized + Len(normalized)
        at_fuse == at_none + Len(none)
        Entry(id, offset, size) ==
            [archive_id |-> <<id>>, offset |-> offset, size |-> NumBytes(size, 4)]
        At(id, offset, size) == Entry(id, NumBytes(offset, 8), size)
        good == PackBytes(body, <<At(65, at_plain, Len(plain)),
                                  At(66, at_normalized, Len(normalized))>>)
    IN {good,
        PackBytes(body, <<At(65, at_none, Len(none)), At(66, at_fuse, Len(fuse_file))>>),
        PackBytes(body, <<At(65, at_plain, Len(plain)), At(65, at_none, Len(none))>>),
        PackBytes(body, <<At(65, at_plain, Len(plain) - 1), At(66, at_fuse, 1000)>>),
        PackBytes(body, <<Entry(65, <<0, 0, 0, 0, 1, 0, 0, 0>>, Len(plain)),
                          Entry(66, Neg64(NumBytes(1, 8)), Len(plain))>>),
        SubSeq(good, 1, Len(good) - kFilterPackFooterSize)
            \o <<0>> \o SubSeq(good, Len(good) - kFilterPackFooterSize + 2, Len(good)),
        <<>>}

\* the mapped bytes in front of the pack buffer; none where that memory is
\* not mapped
ScanMemories == {<<>>, <<0>>, <<67>>}

MaxScanHash == 1

NoScanInput == [pack_bytes |-> <<>>, archive_ids |-> <<>>,
                query |-> [parsed |-> FALSE, expr |-> AndExpr(<<>>)]]

InitScan ==
    /\ sha \in [ScanValues -> [h1 : 0 .. MaxScanHash, h2 : {1}]]
    /\ scan_memory \in ScanMemories
    /\ scan_in = NoScanInput
    /\ scan_out = NoScanOutput

\* run_filter_scan, once per process.  Status "error" stands for return 1
\* without output, "crash" for a fault in a read outside the pack buffer.
RunFilterScan ==
    /\ scan_out.status = "none"
    /\ \E pack_bytes \in ScanPacks(sha), archive_ids \in ScanArchiveIds, query \in ScanQueries :
       \E term_result \in {collect_filter_terms(query.expr, FALSE,
                                                NewFilterTermExtractionResult)} :
       \E unique_terms \in {IF term_result.supported THEN Unique(term_result.terms, {})
                            ELSE <<>>} :
       \E unique_terms_lower \in {[i \in 1 .. Len(unique_terms) |-> to_lower(unique_terms[i])]} :
       \E footer \in {parse_filter_pack_footer(pack_bytes)} :
       \E index \in {parse_filter_pack_index(pack_bytes, footer)} :
       \E verdict \in {[i \in 1 .. Len(archive_ids) |->
                           scan_archive(pack_bytes, scan_memory, footer, index.entries,
                                        unique_terms, unique_terms_lower, sha,
                                        archive_ids[i])]} :
       \E passed \in {{i \in 1 .. Len(archive_ids) : verdict[i] = "passed"}} :
          /\ scan_in' = [pack_bytes |-> pack_bytes, archive_ids |-> archive_ids,
                         query |-> query]
          /\ scan_out' =
                 IF archive_ids = <<>>
                 THEN [NoScanOutput EXCEPT !.status = "ok"]
                 ELSE IF ~query.parsed THEN [NoScanOutput EXCEPT !.status = "error"]
                 ELSE IF ~term_result.supported \/ unique_terms = <<>>
                 THEN [status |-> "ok", supported |-> term_result.supported,
                       passed |-> archive_ids, total |-> Len(archive_ids), skipped |-> 0]
                 ELSE IF ~footer.ok \/ ~index.ok THEN [NoScanOutput EXCEPT !.status = "error"]
                 ELSE IF \E i \in 1 .. Len(archive_ids) : verdict[i] = "crash"
                 THEN [NoScanOutput EXCEPT !.status = "crash"]
                 ELSE [status |-> "ok", supported |-> TRUE,
                       passed |-> SelectSeq2(archive_ids, passed),
                       total |-> Len(archive_ids),
                       skipped |-> Len(archive_ids) - Cardinality(passed)]
    /\ UNCHANGED <<scan_memory>>
    /\ UNCHANGED notScan

NextScan == RunFilterScan

IdleScan ==
    /\ scan_memory = <<>>
    /\ scan_in = NoScanInput
    /\ scan_out = NoScanOutput

\* ---------------------------------------------------------------------------
\* clp-filter: build_filter_pack_file
\* ---------------------------------------------------------------------------

\* UINT8_MAX, the longest archive id an index entry can hold
MaxArchiveIdLen == 255

\* the archive ids of manifest lines: short ones, and the longest that can
\* and the shortest that cannot be encoded
PackArchiveIds ==
    {<<65>>, <<66>>, <<65, 66>>, [i \in 1 .. MaxArchiveIdLen |-> 65],
     [i \in 1 .. MaxArchiveIdLen + 1 |-> 65]}

\* the contents of the filter files manifest lines name
PackFiles == {<<>>, <<7>>, <<8, 9>>}

\* manifest lines of one run
MaxInputs == 2

\* the offset at which the i-th input starts: out.tellp() before it is copied
InputOffset(inputs, i) ==
    LET RECURSIVE Before(_)
        Before(j) == IF j = 0 THEN 0 ELSE Before(j - 1) + Len(inputs[j].file)
    IN Before(i - 1)

\* the index entries, had each offset been taken after its file was copied
PackIndexEntriesAfterCopy(inputs) ==
    [i \in 1 .. Len(inputs) |->
        [archive_id |-> inputs[i].archive_id,
         offset |-> NumBytes(InputOffset(inputs, i + 1), 8),
         size |-> NumBytes(Len(inputs[i].file), 4)]]

\* the index entries build_filter_pack_file collects
PackIndexEntries(inputs) ==
    [i \in 1 .. Len(inputs) |->
        [archive_id |-> inputs[i].archive_id,
         offset |-> NumBytes(InputOffset(inputs, i), 8),
         size |-> NumBytes(Len(inputs[i].file), 4)]]

\* build_filter_pack_file: whether it returned true, and the bytes of the
\* output file.  `out << in.rdbuf()` sets failbit when the input file holds
\* no byte; encode_filter_pack_index fails for an id above UINT8_MAX bytes.
build_filter_pack_file(inputs) ==
    LET failed(written) == [ok |-> FALSE, bytes |-> written]
        body == Concat([i \in 1 .. Len(inputs) |-> inputs[i].file])
        empty == {i \in 1 .. Len(inputs) : inputs[i].file = <<>>}
        first_empty == CHOOSE i \in empty : \A j \in empty : i <= j
    IN IF inputs = <<>> THEN failed(<<>>)
       ELSE IF empty # {}
       THEN failed(Concat([i \in 1 .. first_empty - 1 |-> inputs[i].file]))
       ELSE IF \E i \in 1 .. Len(inputs) : Len(inputs[i].archive_id) > MaxArchiveIdLen
       THEN failed(body)
       ELSE [ok |-> TRUE, bytes |-> PackBytes(body, PackIndexEntries(inputs))]

NoPack == [built |-> FALSE, ok |-> FALSE, bytes |-> <<>>, altered |-> FALSE]

NoPackParse == [done |-> FALSE, footer |-> parse_filter_pack_footer(<<>>),
                index |-> [ok |-> FALSE, entries |-> <<>>]]

InitPack ==
    /\ pack_inputs = <<>>
    /\ pack_out = NoPack
    /\ pack_parsed = NoPackParse

\* read_pack_manifest: one more line of the manifest
PackManifestLine(archive_id, file) ==
    /\ ~pack_out.built
    /\ Len(pack_inputs) < MaxInputs
    /\ pack_inputs' = Append(pack_inputs, [archive_id |-> archive_id, file |-> file])
    /\ UNCHANGED <<pack_out, pack_parsed>>
    /\ UNCHANGED notPack

\* build_filter_pack_file on the manifest's entries
BuildFilterPackFile ==
    /\ ~pack_out.built
    /\ \E r \in {build_filter_pack_file(pack_inputs)} :
          pack_out' = [built |-> TRUE, ok |-> r.ok, bytes |-> r.bytes, altered |-> FALSE]
    /\ UNCHANGED <<pack_inputs, pack_parsed>>
    /\ UNCHANGED notPack

\* numbers of bytes by which a footer may understate the size of the index
ShrinkBy == {1, 12, 13}

\* The pack file changes on disk: the index_size field of its footer
\* becomes smaller, so that the index region ends before the index does.
PackShrinkIndexRegion(k) ==
    /\ pack_out.built /\ pack_out.ok
    /\ ~pack_out.altered
    /\ ~pack_parsed.done
    /\ \E index_size \in {NumValue(SubSeq(pack_out.bytes, Len(pack_out.bytes) - 7,
                                          Len(pack_out.bytes)))} :
          /\ index_size >= k
          /\ pack_out' = [pack_out EXCEPT
                             !.altered = TRUE,
                             !.bytes = SubSeq(@, 1, Len(@) - 8) \o NumBytes(index_size - k, 8)]
    /\ UNCHANGED <<pack_inputs, pack_parsed>>
    /\ UNCHANGED notPack

\* a consumer parses the footer and the index of the pack file
ParseFilterPack ==
    /\ pack_out.built /\ pack_out.ok
    /\ ~pack_parsed.done
    /\ \E footer \in {parse_filter_pack_footer(pack_out.bytes)} :
       \E index \in {parse_filter_pack_index(pack_out.bytes, footer)} :
          pack_parsed' = [done |-> TRUE, footer |-> footer, index |-> index]
    /\ UNCHANGED <<pack_inputs, pack_out>>
    /\ UNCHANGED notPack

NextPack ==
    \/ \E archive_id \in PackArchiveIds, file \in PackFiles : PackManifestLine(archive_id, file)
    \/ BuildFilterPackFile
    \/ \E k \in ShrinkBy : PackShrinkIndexRegion(k)
    \/ ParseFilterPack

IdlePack ==
    /\ pack_inputs = <<>>
    /\ pack_out = NoPack
    /\ pack_parsed = NoPackParse

\* ---------------------------------------------------------------------------
\* read_filter_file on files whose header was not written by write_filter_file
\* ---------------------------------------------------------------------------

\* the filter files write_filter_file produces for freshly constructed filters
WrittenFilterFiles ==
    UNION {{write_filter_file([type |-> type, false_positive_rate |-> "0.07",
                               normalize |-> normalize], filter, 0) :
               filter \in ConstructedFilters(type, "0.07")} :
              type \in {"None", "Bloom", "BinaryFuse", "PrefixSuffix"}, normalize \in BOOLEAN}

\* offsets (from 1) of the first magic byte, the lowest and the highest
\* version byte, and the kind byte of a FilterFileHeader
HeaderBytes == {1, 5, 8, 9}

\* bytes to put there: 0 and 2 are kinds of the enumeration, 9 is not;
\* none of them is 'C' or the version
OtherBytes == {0, 2, 9}

NoHeaderRead == [done |-> FALSE, ok |-> FALSE]

InitHeader ==
    /\ hdr_file = <<>>
    /\ hdr_read = NoHeaderRead

\* write_filter_file creates the file
HdrWriteFilterFile ==
    /\ hdr_file = <<>>
    /\ hdr_file' \in WrittenFilterFiles
    /\ hdr_read' = NoHeaderRead
    /\ UNCHANGED notHeader

\* the file changes on disk: one byte of its header is overwritten
HdrOverwriteByte(i, v) ==
    /\ hdr_file # <<>>
    /\ hdr_file' = [hdr_file EXCEPT ![i] = v]
    /\ hdr_read' = NoHeaderRead
    /\ UNCHANGED notHeader

\* read_filter_file on the file as it is now
HdrReadFilterFile ==
    /\ hdr_file # <<>>
    /\ \E r \in {read_filter_file(hdr_file, DefaultFilterConfig, DefaultProbabilisticFilter, 0)} :
          hdr_read' = [done |-> TRUE, ok |-> r.ok]
    /\ UNCHANGED hdr_file
    /\ UNCHANGED notHeader

NextHeader ==
    \/ HdrWriteFilterFile
    \/ \E i \in HeaderBytes, v \in OtherBytes : HdrOverwriteByte(i, v)
    \/ HdrReadFilterFile

IdleHeader ==
    /\ hdr_file = <<>>
    /\ hdr_read = NoHeaderRead

\* ---------------------------------------------------------------------------
\* PrefixSuffixFilter: population and wildcard queries
\* ---------------------------------------------------------------------------

\* std::reverse
Reverse(s) == [i \in 1 .. Len(s) |-> s[Len(s) + 1 - i]]

RECURSIVE add_prefix_lengths(_, _, _, _)
\* the loop of add_prefixes: filter.add(value.substr(0, len)) for
\* len = kMinLength, kMinLength + kStride, ... while len <= value.length()
add_prefix_lengths(filter, h, value, len) ==
    IF len > Len(value) THEN filter
    ELSE add_prefix_lengths(bloom_add(filter, h, substr(value, 0, len)), h, value,
                            len + kStride)

\* PrefixSuffixFilter::add_prefixes
add_prefixes(value, filter, h) ==
    IF Len(value) < kMinLength THEN bloom_add(filter, h, value)
    ELSE LET looped == add_prefix_lengths(filter, h, value, kMinLength)
         IN IF (Len(value) - kMinLength) % kStride # 0
            THEN bloom_add(looped, h, value)
            ELSE looped

\* PrefixSuffixFilter::add
psf_add(f, h, value) ==
    IF value = <<>> THEN f
    ELSE [m_forward_filter |-> add_prefixes(value, f.m_forward_filter, h),
          m_reverse_filter |-> add_prefixes(Reverse(value), f.m_reverse_filter, h)]

\* PrefixSuffixFilter::is_empty, the forward filter being allocated
psf_is_empty(f) == f.m_forward_filter.m_bit_array = <<>>

\* PrefixSuffixFilter::check_prefix
check_prefix(value, filter, h) == bloom_possibly_contains(filter, h, value)

\* PrefixSuffixFilter::possibly_contains
psf_possibly_contains(f, h, value) ==
    LET has_start_wildcard == value # <<>> /\ value[1] = "*"
        has_end_wildcard == value # <<>> /\ value[Len(value)] = "*"
    IN IF psf_is_empty(f) THEN FALSE
       ELSE IF has_start_wildcard /\ has_end_wildcard THEN TRUE
       ELSE IF has_start_wildcard
       THEN check_prefix(Reverse(substr(value, 1, Len(value))), f.m_reverse_filter, h)
       ELSE IF has_end_wildcard
       THEN check_prefix(substr(value, 0, Len(value) - 1), f.m_forward_filter, h)
       ELSE check_prefix(value, f.m_forward_filter, h)

RECURSIVE psf_add_all(_, _, _)
psf_add_all(f, h, keys) ==
    IF keys = {} THEN f
    ELSE LET key == CHOOSE k \in keys : TRUE
         IN psf_add_all(psf_add(f, h, key), h, keys \ {key})

\* PrefixSuffixFilter(key_set, false_positive_rate)
PrefixSuffixFilterOfKeys(key_set, false_positive_rate, h) ==
    LET counted == SumOver([key \in key_set |->
                               IF Len(key) >= kMinLength
                               THEN (Len(key) - kMinLength) \div kStride + 1
                               ELSE 0], key_set)
        total_items == IF counted = 0 THEN Cardinality(key_set) ELSE counted
    IN psf_add_all([m_forward_filter |-> BloomFilter(total_items, false_positive_rate),
                    m_reverse_filter |-> BloomFilter(total_items, false_positive_rate)],
                   h, key_set)

PsfAlphabet == {"a", "b", "c", "*"}

MaxPsfLen == 4

RECURSIVE PsfStringsOfLen(_)
PsfStringsOfLen(n) ==
    IF n = 0 THEN {<<>>}
    ELSE {Append(s, c) : s \in PsfStringsOfLen(n - 1), c \in PsfAlphabet}

PsfStrings == UNION {PsfStringsOfLen(n) : n \in 0 .. MaxPsfLen}

\* the values handed to add
PsfValues == {<<>>, <<"a">>, <<"a", "b", "c">>, <<"a", "b", "c", "b">>}

\* the patterns handed to possibly_contains
PsfPatterns ==
    PsfValues
    \cup {<<"*">>, <<"*", "*">>, <<"*", "b", "*">>, <<"*", "a", "b", "*">>}
    \cup {<<"a", "b", "c", "*">>, <<"a", "b", "a", "*">>, <<"a", "b", "*">>}
    \cup {<<"*", "a", "b", "c">>, <<"*", "b", "c", "b">>, <<"*", "c", "c", "b">>}

CharCode(c) == IF c = "a" THEN 97 ELSE IF c = "b" THEN 98 ELSE IF c = "c" THEN 99 ELSE 42

MaxPsfHash == 1

\* the hash words of a string, one family member per k
PsfHash(k) ==
    [s \in PsfStrings |->
        [h1 |-> k + SumOver([i \in 1 .. Len(s) |-> i * CharCode(s[i])], 1 .. Len(s)),
         h2 |-> 1 + k * Len(s)]]

MaxPsfAdds == 2

NoPsfQuery == [asked |-> FALSE, pattern |-> <<>>, answer |-> FALSE]

\* a filter made by either constructor
InitPsf ==
    /\ sha \in {PsfHash(k) : k \in 0 .. MaxPsfHash}
    /\ \/ /\ psf \in {PrefixSuffixFilter(n, "0.07", avg) : n \in {0, 1}, avg \in {1, 4}}
          /\ psf_added = {}
       \/ \E key_set \in SUBSET (PsfValues \ {<<>>}) :
             /\ Cardinality(key_set) <= 1
             /\ psf = PrefixSuffixFilterOfKeys(key_set, "0.07", sha)
             /\ psf_added = key_set
    /\ psf_adds = 0
    /\ psf_query = NoPsfQuery

PsfAdd(value) ==
    /\ psf_adds < MaxPsfAdds
    /\ psf' = psf_add(psf, sha, value)
    /\ psf_added' = psf_added \cup {value}
    /\ psf_adds' = psf_adds + 1
    /\ UNCHANGED psf_query
    /\ UNCHANGED notPsf

PsfPossiblyContains(pattern) ==
    /\ psf_query' = [asked |-> TRUE, pattern |-> pattern,
                     answer |-> psf_possibly_contains(psf, sha, pattern)]
    /\ UNCHANGED <<psf, psf_added, psf_adds>>
    /\ UNCHANGED notPsf

NextPsf ==
    \/ \E value \in PsfValues : PsfAdd(value)
    \/ \E pattern \in PsfPatterns : PsfPossiblyContains(pattern)

IdlePsf ==
    /\ psf = [m_forward_filter |-> EmptyBloomFilter, m_reverse_filter |-> EmptyBloomFilter]
    /\ psf_added = {}
    /\ psf_adds = 0
    /\ psf_query = NoPsfQuery

\* ---------------------------------------------------------------------------
\* ProbabilisticFilter: copy construction and copy assignment.  The wrappers
\* hold their implementation by pointer: cp_heap maps the address of every
\* live implementation object to its members, address 0 is the null pointer.
\* ---------------------------------------------------------------------------

CopyValues == {"a", "b"}

MaxCopyAdds == 2

MaxCopyAssigns == 1

NullImpl == 0

\* the address operator new hands out
NewAddress(heap) == CHOOSE a \in 1 .. (Cardinality(DOMAIN heap) + 1) : a \notin DOMAIN heap

\* std::make_unique<BloomFilter>(...)
make_unique(heap, object) ==
    [heap |-> [a \in DOMAIN heap \cup {NewAddress(heap)} |->
                  IF a \in DOMAIN heap THEN heap[a] ELSE object],
     address |-> NewAddress(heap)]

\* the destructor of the unique_ptr that held address
release(heap, address) == [a \in DOMAIN heap \ {address} |-> heap[a]]

\* BloomFilter::clone, had it handed out a pointer to the object itself
bloom_clone_sharing(heap, address) == [heap |-> heap, address |-> address]

\* BloomFilter::clone: a new object with the three members copied
bloom_clone(heap, address) ==
    make_unique(heap, [m_bit_array |-> heap[address].m_bit_array,
                       m_bit_array_size |-> heap[address].m_bit_array_size,
                       m_num_hash_functions |-> heap[address].m_num_hash_functions])

\* ProbabilisticFilter(ProbabilisticFilter const& other)
wrapper_copy(heap, other) ==
    IF other.m_impl # NullImpl
    THEN LET c == bloom_clone(heap, other.m_impl)
         IN [heap |-> c.heap, w |-> [m_impl |-> c.address]]
    ELSE [heap |-> heap, w |-> [m_impl |-> NullImpl]]

\* ProbabilisticFilter::operator=(ProbabilisticFilter const& other), this and
\* other being two objects; the implementation this held is destroyed
wrapper_assign(heap, this, other) ==
    IF other.m_impl # NullImpl
    THEN LET c == bloom_clone(heap, other.m_impl)
         IN [heap |-> IF c.address = this.m_impl THEN c.heap
                      ELSE release(c.heap, this.m_impl),
             w |-> [m_impl |-> c.address]]
    ELSE [heap |-> release(heap, this.m_impl), w |-> [m_impl |-> NullImpl]]

\* ProbabilisticFilter::add on the implementation the wrapper points to
pointer_add(heap, w, h, value) ==
    IF w.m_impl # NullImpl
    THEN [heap EXCEPT ![w.m_impl] = bloom_add(@, h, value)]
    ELSE heap

\* ProbabilisticFilter::possibly_contains
pointer_possibly_contains(heap, w, h, value) ==
    IF w.m_impl # NullImpl THEN bloom_possibly_contains(heap[w.m_impl], h, value) ELSE FALSE

\* one wrapper: ProbabilisticFilter(FilterType::Bloom, n, p), ProbabilisticFilter(),
\* or a wrapper that has been moved from
InitCopy ==
    /\ sha \in [CopyValues -> [h1 : HashWords, h2 : {1}]]
    /\ \/ \E object \in {EmptyBloomFilter} \cup {BloomFilter(n, "0.07") : n \in 0 .. 2} :
             /\ cp_heap = make_unique(<<>>, object).heap
             /\ cp_orig = [m_impl |-> make_unique(<<>>, object).address]
       \/ /\ cp_heap = <<>>
          /\ cp_orig = [m_impl |-> NullImpl]
    /\ cp_copy = [m_impl |-> NullImpl]
    /\ cp_log = [wrappers |-> 1, copied |-> FALSE, adds |-> 0, assigns |-> 0, last |-> "none"]

\* ProbabilisticFilter copy{original};
CpCopyConstruct ==
    /\ cp_log.wrappers = 1
    /\ \E r \in {wrapper_copy(cp_heap, cp_orig)} :
          /\ cp_heap' = r.heap
          /\ cp_copy' = r.w
    /\ cp_log' = [cp_log EXCEPT !.wrappers = 2, !.copied = TRUE, !.last = "construct"]
    /\ UNCHANGED cp_orig
    /\ UNCHANGED notCopy

\* ProbabilisticFilter copy;
CpDefaultConstruct ==
    /\ cp_log.wrappers = 1
    /\ \E r \in {make_unique(cp_heap, EmptyBloomFilter)} :
          /\ cp_heap' = r.heap
          /\ cp_copy' = [m_impl |-> r.address]
    /\ cp_log' = [cp_log EXCEPT !.wrappers = 2, !.last = "default"]
    /\ UNCHANGED cp_orig
    /\ UNCHANGED notCopy

\* copy = original;
CpCopyAssign ==
    /\ cp_log.wrappers = 2
    /\ cp_log.assigns < MaxCopyAssigns
    /\ \E r \in {wrapper_assign(cp_heap, cp_copy, cp_orig)} :
          /\ cp_heap' = r.heap
          /\ cp_copy' = r.w
    /\ cp_log' = [cp_log EXCEPT !.copied = TRUE, !.assigns = @ + 1, !.last = "assign"]
    /\ UNCHANGED cp_orig
    /\ UNCHANGED notCopy

\* original.add(value) or copy.add(value)
CpAdd(on, value) ==
    /\ cp_log.adds < MaxCopyAdds
    /\ on = "copy" => cp_log.wrappers = 2
    /\ cp_heap' = pointer_add(cp_heap, IF on = "copy" THEN cp_copy ELSE cp_orig, sha, value)
    /\ cp_log' = [cp_log EXCEPT !.adds = @ + 1, !.last = on]
    /\ UNCHANGED <<cp_orig, cp_copy>>
    /\ UNCHANGED notCopy

NextCopy ==
    \/ CpCopyConstruct
    \/ CpDefaultConstruct
    \/ CpCopyAssign
    \/ \E on \in {"original", "copy"}, value \in CopyValues : CpAdd(on, value)

IdleCopy ==
    /\ cp_heap = <<>>
    /\ cp_orig = [m_impl |-> NullImpl]
    /\ cp_copy = [m_impl |-> NullImpl]
    /\ cp_log = [wrappers |-> 0, copied |-> FALSE, adds |-> 0, assigns |-> 0, last |-> "none"]

\* ---------------------------------------------------------------------------
\* collect_filter_terms over expression trees
\* ---------------------------------------------------------------------------

\* an operand that is a literal, no expression
LiteralOperand ==
    [kind |-> "Literal", op |-> "", var_string |-> FALSE, query_string |-> "", ops |-> <<>>,
     inverted |-> FALSE]

\* an expression that is neither AndExpr, OrExpr nor FilterExpr
EmptyExpr ==
    [kind |-> "EmptyExpr", op |-> "", var_string |-> FALSE, query_string |-> "", ops |-> <<>>,
     inverted |-> FALSE]

TermLeaves ==
    {FilterExpr("EQ", TRUE, "a"),
     FilterExpr("EQ", TRUE, "b\\*"),
     FilterExpr("EQ", TRUE, "a*"),
     FilterExpr("EQ", FALSE, "a"),
     FilterExpr("NEQ", TRUE, "b"),
     Inverted(FilterExpr("EQ", TRUE, "a")),
     OrExpr(<<FilterExpr("EQ", TRUE, "a")>>),
     EmptyExpr}

MaxOperands == 2

OperandLists(operands) == UNION {[1 .. n -> operands] : n \in 0 .. MaxOperands}

\* AndExprs over leaves and literals, and AndExprs that hold one of these
InnerAnds ==
    {AndExpr(<<FilterExpr("EQ", TRUE, "b\\*")>>),
     AndExpr(<<FilterExpr("EQ", TRUE, "a"), OrExpr(<<>>)>>),
     AndExpr(<<LiteralOperand>>),
     Inverted(AndExpr(<<FilterExpr("EQ", TRUE, "a")>>))}

TermExprs ==
    TermLeaves
    \cup {AndExpr(ops) : ops \in OperandLists(TermLeaves \cup {LiteralOperand})}
    \cup {AndExpr(<<x, y>>) : x \in InnerAnds, y \in TermLeaves \cup {LiteralOperand}}
    \cup {AndExpr(<<y, x>>) : x \in InnerAnds, y \in TermLeaves \cup {LiteralOperand}}

NoTermResult == [done |-> FALSE, supported |-> FALSE, reason |-> "", terms |-> <<>>]

InitTerms ==
    /\ terms_expr \in TermExprs
    /\ terms_result = NoTermResult

\* collect_filter_terms(expr, false, result) on a fresh result
CollectFilterTerms ==
    /\ ~terms_result.done
    /\ \E r \in {collect_filter_terms(terms_expr, FALSE, NewFilterTermExtractionResult)} :
          terms_result' = [done |-> TRUE, supported |-> r.supported, reason |-> r.reason,
                           terms |-> r.terms]
    /\ UNCHANGED terms_expr
    /\ UNCHANGED notTerms

NextTerms == CollectFilterTerms

IdleTerms ==
    /\ terms_expr = AndExpr(<<>>)
    /\ terms_result = NoTermResult

\* ---------------------------------------------------------------------------
\* Output::filter: one run over one archive
\* ---------------------------------------------------------------------------

\* the records of the archive: the value of the string column, and whether
\* the predicate a query puts on a column of another type holds
ArchiveRecords == {[s |-> "a", other |-> TRUE], [s |-> "b*", other |-> FALSE]}

\* the strings queries and dictionaries hold
RunStrings == {"a", "b*", "c"}

\* hash functions: one without collisions, one where "c" falls on "a"
RunHashes ==
    {[str \in RunStrings |-> [h1 |-> IF str = "a" THEN 0 ELSE IF str = "b*" THEN 1 ELSE 2,
                              h2 |-> 1]],
     [str \in RunStrings |-> [h1 |-> IF str = "b*" THEN 1 ELSE 0, h2 |-> 1]]}

RunQueries ==
    {FilterExpr("EQ", TRUE, "a"),
     FilterExpr("EQ", TRUE, "c"),
     FilterExpr("EQ", TRUE, "a*"),
     FilterExpr("NEQ", TRUE, "c"),
     FilterExpr("EXISTS", TRUE, "c"),
     Inverted(FilterExpr("EQ", TRUE, "c")),
     OrExpr(<<FilterExpr("EQ", TRUE, "c"), FilterExpr("EQ", FALSE, "c")>>),
     AndExpr(<<FilterExpr("EQ", TRUE, "a"), FilterExpr("EQ", TRUE, "c")>>),
     AndExpr(<<FilterExpr("EQ", TRUE, "a"), FilterExpr("EQ", FALSE, "c")>>)}

\* the filter section of an archive whose dictionary holds the strings of
\* its records, written from all of them: absent, cut short, or whole
RunSections(h, records) ==
    LET body == Tail(bloom_write_to_file(BuiltBloomFilter(h, {rec.s : rec \in records})))
    IN {[present |-> FALSE, bytes |-> <<>>],
        [present |-> TRUE, bytes |-> SubSeq(body, 1, Len(body) - 1)],
        [present |-> TRUE, bytes |-> body]}

\* whether a string value matches the operand of a string predicate
MatchesOperand(value, query_string, ignore_case) ==
    IF query_string = "a*" THEN value = "a"
    ELSE IF ignore_case
    THEN to_upper_copy(value) = to_upper_copy(unescape_string(query_string))
    ELSE value = unescape_string(query_string)

RECURSIVE Satisfies(_, _, _)
\* whether a record satisfies a query
Satisfies(rec, expr, ignore_case) ==
    LET plain ==
            IF expr.kind = "AndExpr"
            THEN \A i \in 1 .. Len(expr.ops) : Satisfies(rec, expr.ops[i], ignore_case)
            ELSE IF expr.kind = "OrExpr"
            THEN \E i \in 1 .. Len(expr.ops) : Satisfies(rec, expr.ops[i], ignore_case)
            ELSE IF expr.op = "EXISTS" THEN TRUE
            ELSE IF expr.op = "NEXISTS" THEN FALSE
            ELSE LET holds == IF expr.var_string
                              THEN MatchesOperand(rec.s, expr.query_string, ignore_case)
                              ELSE rec.other
                 IN IF expr.op = "EQ" THEN holds ELSE ~holds
    IN IF expr.inverted THEN ~plain ELSE plain

\* Output::filter from the filter load to the dictionary reads, had it read
\* the variable dictionary whatever should_load_variable_dictionary says
dictionary_tier_always_reading(r, h, section, expr, ignore_case) ==
    LET load == load_bloom_filter(r, section)
        should_load == should_load_variable_dictionary(load.r, h, expr, ignore_case)
    IN [r |-> load.r,
        loaded |-> load.success,
        returned |-> FALSE,
        calls |-> IF load.success
                  THEN <<"load_bloom_filter", "should_load_variable_dictionary",
                         "read_variable_dictionary", "read_log_type_dictionary">>
                  ELSE <<"load_bloom_filter", "read_variable_dictionary",
                         "read_log_type_dictionary">>]

\* Output::filter from the filter load to the dictionary reads
dictionary_tier(r, h, section, expr, ignore_case) ==
    LET load == load_bloom_filter(r, section)
        should_load == should_load_variable_dictionary(load.r, h, expr, ignore_case)
    IN IF load.success /\ ~should_load
       THEN [r |-> load.r, loaded |-> TRUE, returned |-> TRUE,
             calls |-> <<"load_bloom_filter", "should_load_variable_dictionary",
                         "read_log_type_dictionary">>]
       ELSE IF load.success
       THEN [r |-> load.r, loaded |-> TRUE, returned |-> FALSE,
             calls |-> <<"load_bloom_filter", "should_load_variable_dictionary",
                         "read_variable_dictionary", "read_log_type_dictionary">>]
       ELSE [r |-> load.r, loaded |-> FALSE, returned |-> FALSE,
             calls |-> <<"load_bloom_filter", "read_variable_dictionary",
                         "read_log_type_dictionary">>]

NoRun ==
    [pc |-> "idle", r |-> NewDictionaryReader, calls |-> <<>>, loaded |-> FALSE,
     output |-> {}, result |-> "none"]

NoRunInput ==
    [records |-> {}, section |-> [present |-> FALSE, bytes |-> <<>>], expr |-> AndExpr(<<>>),
     ignore_case |-> FALSE, matched |-> "none", timestamp_ok |-> FALSE]

InitRun ==
    /\ sha \in RunHashes
    /\ \E records \in SUBSET ArchiveRecords :
       \E use_bloom_filter \in BOOLEAN :
          /\ out_in \in [records : {records},
                         section : RunSections(sha, records),
                         expr : RunQueries,
                         ignore_case : BOOLEAN,
                         matched : {"none", "plain", "array", "array_search"},
                         timestamp_ok : BOOLEAN]
          /\ out_run = [NoRun EXCEPT !.pc = "metadata",
                                     !.r.m_use_bloom_filter = use_bloom_filter]

\* read_metadata and the collection of the matched schemas
OutReadMetadata ==
    /\ out_run.pc = "metadata"
    /\ out_run' = [out_run EXCEPT
                      !.calls = Append(@, "read_metadata"),
                      !.pc = IF out_in.matched = "none" THEN "returned" ELSE "timestamp",
                      !.result = IF out_in.matched = "none" THEN "true" ELSE @]
    /\ UNCHANGED out_in
    /\ UNCHANGED notRun

\* EvaluateTimestampIndex::run
OutTimestampIndex ==
    /\ out_run.pc = "timestamp"
    /\ out_run' = IF out_in.timestamp_ok
                  THEN [out_run EXCEPT !.pc = "dictionaries"]
                  ELSE [out_run EXCEPT !.calls = Append(@, "close"),
                                       !.pc = "returned", !.result = "true"]
    /\ UNCHANGED out_in
    /\ UNCHANGED notRun

\* the filter load, the consultation and the dictionary reads
OutDictionaryTier ==
    /\ out_run.pc = "dictionaries"
    /\ \E t \in {dictionary_tier(out_run.r, sha, out_in.section, out_in.expr,
                                 out_in.ignore_case)} :
          out_run' = [out_run EXCEPT
                         !.r = t.r,
                         !.calls = @ \o t.calls,
                         !.loaded = t.loaded,
                         !.pc = IF t.returned THEN "returned" ELSE "streams",
                         !.result = IF t.returned THEN "true" ELSE @]
    /\ UNCHANGED out_in
    /\ UNCHANGED notRun

\* read_array_dictionary, global_init and open_packed_streams
OutOpenPackedStreams ==
    /\ out_run.pc = "streams"
    /\ out_run' = [out_run EXCEPT
                      !.calls = @ \o (IF out_in.matched = "plain" THEN <<>>
                                      ELSE <<"read_array_dictionary">>)
                                  \o <<"global_init", "open_packed_streams">>,
                      !.pc = "schemas"]
    /\ UNCHANGED out_in
    /\ UNCHANGED notRun

\* the loop over the matched schemas, for the one schema of the archive
OutProcessSchema(schema_init, flush_ok) ==
    /\ out_run.pc = "schemas"
    /\ out_run' =
          IF ~schema_init
          THEN [out_run EXCEPT !.calls = Append(@, "schema_init"), !.pc = "finish"]
          ELSE [out_run EXCEPT
                   !.calls = @ \o <<"schema_init", "read_schema_table", "flush">>,
                   !.output = {rec \in out_in.records :
                                  Satisfies(rec, out_in.expr, out_in.ignore_case)},
                   !.pc = IF flush_ok THEN "finish" ELSE "returned",
                   !.result = IF flush_ok THEN @ ELSE "false"]
    /\ UNCHANGED out_in
    /\ UNCHANGED notRun

\* m_output_handler->finish()
OutFinish(finish_ok) ==
    /\ out_run.pc = "finish"
    /\ out_run' = [out_run EXCEPT !.calls = Append(@, "finish"), !.pc = "returned",
                                  !.result = IF finish_ok THEN "true" ELSE "false"]
    /\ UNCHANGED out_in
    /\ UNCHANGED notRun

NextRun ==
    \/ OutReadMetadata
    \/ OutTimestampIndex
    \/ OutDictionaryTier
    \/ OutOpenPackedStreams
    \/ \E schema_init \in BOOLEAN, flush_ok \in BOOLEAN : OutProcessSchema(schema_init, flush_ok)
    \/ \E finish_ok \in BOOLEAN : OutFinish(finish_ok)

IdleRun ==
    /\ out_in = NoRunInput
    /\ out_run = NoRun

\* ---------------------------------------------------------------------------
\* get_filter_value and set_filter_value over the bit-packed array
\* ---------------------------------------------------------------------------

\* values handed to set_filter_value; the last has every bit below 31 set
SlotValues == {0, 1, 5, Pow2(30) + (Pow2(30) - 1)}

\* slots at the head, in the middle and in the last bytes of the array
SlotPositions(f) ==
    {pos \in {0, 1, f.m_array_size \div 2, f.m_array_size - 3, f.m_array_size - 2,
              f.m_array_size - 1} : pos >= 0 /\ pos < f.m_array_size}

MaxSlotSets == 2

NoSlotCall == [called |-> FALSE, pos |-> 0, value |-> 0]

\* a filter as BinaryFuseFilter(1, p) leaves it: the array is allocated and zero
InitSlot ==
    /\ \E p \in FuseRates :
         \E w \in FingerprintMaskWidths(compute_fingerprint_bits(p)) :
            slot_f = BinaryFuseFilter(1, p, w)
    /\ slot_before = slot_f.m_filter_u8
    /\ slot_call = NoSlotCall
    /\ slot_sets = 0

\* set_filter_value(pos, value)
SetFilterValue(pos, value) ==
    /\ slot_sets < MaxSlotSets
    /\ slot_f' = [slot_f EXCEPT !.m_filter_u8 = set_filter_value(slot_f, pos, value)]
    /\ slot_before' = slot_f.m_filter_u8
    /\ slot_call' = [called |-> TRUE, pos |-> pos, value |-> value]
    /\ slot_sets' = slot_sets + 1
    /\ UNCHANGED notSlot

NextSlot == \E pos \in SlotPositions(slot_f), value \in SlotValues : SetFilterValue(pos, value)

IdleSlot ==
    /\ slot_f = EmptyBinaryFuseFilter
    /\ slot_before = <<>>
    /\ slot_call = NoSlotCall
    /\ slot_sets = 0

\* ---------------------------------------------------------------------------
\* A BloomFilter through its life: constructed, added to, read from a stream
\* ---------------------------------------------------------------------------

\* the three header fields of a serialized BloomFilter and the bytes after them
BloomStream(num_hash_functions, bit_array_size, bit_array_bytes, data) ==
    NumBytes(num_hash_functions, 4) \o NumBytes(bit_array_size, 8)
        \o NumBytes(bit_array_bytes, 8) \o data

MaxStreamBytes == 2

\* byte streams handed to read_from_file: every combination of a declared
\* size in bits, a declared length in bytes and a number of bytes that follow,
\* and streams that end inside the header
LoadStreams ==
    {BloomStream(1, bit_array_size, bit_array_bytes, [i \in 1 .. data_len |-> 5]) :
         bit_array_size \in {0, 3, 8, 16}, bit_array_bytes \in 0 .. MaxStreamBytes,
         data_len \in 0 .. MaxStreamBytes}
    \cup {<<>>, NumBytes(1, 4), NumBytes(1, 4) \o NumBytes(8, 8)}

MaxLoadAdds == 2

NoLoadCall == [called |-> FALSE, returned |-> FALSE]

InitLoad ==
    /\ sha \in HashFunctions(BloomValues)
    /\ \E n \in 0 .. MaxExpected, p \in BloomRates : ld_bloom = BloomFilter(n, p)
    /\ ld_adds = 0
    /\ ld_read = NoLoadCall

\* add on a filter as its constructor and earlier adds left it
LoadAdd(value) ==
    /\ ~ld_read.called
    /\ ld_adds < MaxLoadAdds
    /\ ld_bloom' = bloom_add(ld_bloom, sha, value)
    /\ ld_adds' = ld_adds + 1
    /\ UNCHANGED ld_read
    /\ UNCHANGED notLoad

\* read_from_file(reader, decompressor) on a stream
LoadReadFromFile(stream) ==
    /\ ~ld_read.called
    /\ \E r \in {bloom_read_from_file(ld_bloom, stream, 0)} :
          /\ ld_bloom' = r.f
          /\ ld_read' = [called |-> TRUE, returned |-> r.ok]
    /\ UNCHANGED ld_adds
    /\ UNCHANGED notLoad

NextLoad ==
    \/ \E value \in BloomValues : LoadAdd(value)
    \/ \E stream \in LoadStreams : LoadReadFromFile(stream)

IdleLoad ==
    /\ ld_bloom = EmptyBloomFilter
    /\ ld_adds = 0
    /\ ld_read = NoLoadCall

\* ---------------------------------------------------------------------------
\* Specifications, one per component
\* ---------------------------------------------------------------------------

\* the Bloom object of SpecBloom at rest, for the components that bring their own
RestBloom ==
    /\ bloom = EmptyBloomFilter
    /\ bloom_added = {}
    /\ bloom_query = NoQuery
    /\ bloom_params = NoParameters

BloomInit ==
    /\ InitBloom
    /\ IdleFuse
    /\ IdleNGram
    /\ IdleDict
    /\ IdleReader
    /\ IdleSchema
    /\ IdleFile
    /\ IdleScan
    /\ IdlePack
    /\ IdleHeader
    /\ IdlePsf
    /\ IdleCopy
    /\ IdleTerms
    /\ IdleRun
    /\ IdleSlot
    /\ IdleLoad

SpecBloom == BloomInit /\ [][NextBloom]_vars

FuseInit ==
    /\ InitFuse
    /\ IdleBloom
    /\ IdleNGram
    /\ IdleDict
    /\ IdleReader
    /\ IdleSchema
    /\ IdleFile
    /\ IdleScan
    /\ IdlePack
    /\ IdleHeader
    /\ IdlePsf
    /\ IdleCopy
    /\ IdleTerms
    /\ IdleRun
    /\ IdleSlot
    /\ IdleLoad

SpecFuse == FuseInit /\ [][NextFuse]_vars

NGramInit ==
    /\ InitNGram
    /\ IdleBloom
    /\ IdleFuse
    /\ IdleDict
    /\ IdleReader
    /\ IdleSchema
    /\ IdleFile
    /\ IdleScan
    /\ IdlePack
    /\ IdleHeader
    /\ IdlePsf
    /\ IdleCopy
    /\ IdleTerms
    /\ IdleRun
    /\ IdleSlot
    /\ IdleLoad

SpecNGram == NGramInit /\ [][NextNGram]_vars

DictInit ==
    /\ InitDict
    /\ RestBloom
    /\ IdleFuse
    /\ IdleNGram
    /\ IdleReader
    /\ IdleSchema
    /\ IdleFile
    /\ IdleScan
    /\ IdlePack
    /\ IdleHeader
    /\ IdlePsf
    /\ IdleCopy
    /\ IdleTerms
    /\ IdleRun
    /\ IdleSlot
    /\ IdleLoad

SpecDict == DictInit /\ [][NextDict]_vars

ReaderInit ==
    /\ InitReader
    /\ RestBloom
    /\ IdleFuse
    /\ IdleNGram
    /\ IdleDict
    /\ IdleSchema
    /\ IdleFile
    /\ IdleScan
    /\ IdlePack
    /\ IdleHeader
    /\ IdlePsf
    /\ IdleCopy
    /\ IdleTerms
    /\ IdleRun
    /\ IdleSlot
    /\ IdleLoad

SpecReader == ReaderInit /\ [][NextReader]_vars

SchemaInit ==
    /\ InitSchema
    /\ IdleBloom
    /\ IdleFuse
    /\ IdleNGram
    /\ IdleDict
    /\ IdleReader
    /\ IdleFile
    /\ IdleScan
    /\ IdlePack
    /\ IdleHeader
    /\ IdlePsf
    /\ IdleCopy
    /\ IdleTerms
    /\ IdleRun
    /\ IdleSlot
    /\ IdleLoad

SpecSchema == SchemaInit /\ [][NextSchema]_vars

FileInit ==
    /\ InitFile
    /\ RestBloom
    /\ IdleFuse
    /\ IdleNGram
    /\ IdleDict
    /\ IdleReader
    /\ IdleSchema
    /\ IdleScan
    /\ IdlePack
    /\ IdleHeader
    /\ IdlePsf
    /\ IdleCopy
    /\ IdleTerms
    /\ IdleRun
    /\ IdleSlot
    /\ IdleLoad

SpecFile == FileInit /\ [][NextFile]_vars

ScanInit ==
    /\ InitScan
    /\ RestBloom
    /\ IdleFuse
    /\ IdleNGram
    /\ IdleDict
    /\ IdleReader
    /\ IdleSchema
    /\ IdleFile
    /\ IdlePack
    /\ IdleHeader
    /\ IdlePsf
    /\ IdleCopy
    /\ IdleTerms
    /\ IdleRun
    /\ IdleSlot
    /\ IdleLoad

SpecScan == ScanInit /\ [][NextScan]_vars

PackInit ==
    /\ InitPack
    /\ IdleBloom
    /\ IdleFuse
    /\ IdleNGram
    /\ IdleDict
    /\ IdleReader
    /\ IdleSchema
    /\ IdleFile
    /\ IdleScan
    /\ IdleHeader
    /\ IdlePsf
    /\ IdleCopy
    /\ IdleTerms
    /\ IdleRun
    /\ IdleSlot
    /\ IdleLoad

SpecPack == PackInit /\ [][NextPack]_vars

HeaderInit ==
    /\ InitHeader
    /\ IdleBloom
    /\ IdleFuse
    /\ IdleNGram
    /\ IdleDict
    /\ IdleReader
    /\ IdleSchema
    /\ IdleFile
    /\ IdleScan
    /\ IdlePack
    /\ IdlePsf
    /\ IdleCopy
    /\ IdleTerms
    /\ IdleRun
    /\ IdleSlot
    /\ IdleLoad

SpecHeader == HeaderInit /\ [][NextHeader]_vars

PsfInit ==
    /\ InitPsf
    /\ RestBloom
    /\ IdleFuse
    /\ IdleNGram
    /\ IdleDict
    /\ IdleReader
    /\ IdleSchema
    /\ IdleFile
    /\ IdleScan
    /\ IdlePack
    /\ IdleHeader
    /\ IdleCopy
    /\ IdleTerms
    /\ IdleRun
    /\ IdleSlot
    /\ IdleLoad

SpecPsf == PsfInit /\ [][NextPsf]_vars

CopyInit ==
    /\ InitCopy
    /\ RestBloom
    /\ IdleFuse
    /\ IdleNGram
    /\ IdleDict
    /\ IdleReader
    /\ IdleSchema
    /\ IdleFile
    /\ IdleScan
    /\ IdlePack
    /\ IdleHeader
    /\ IdlePsf
    /\ IdleTerms
    /\ IdleRun
    /\ IdleSlot
    /\ IdleLoad

SpecCopy == CopyInit /\ [][NextCopy]_vars

TermsInit ==
    /\ InitTerms
    /\ IdleBloom
    /\ IdleFuse
    /\ IdleNGram
    /\ IdleDict
    /\ IdleReader
    /\ IdleSchema
    /\ IdleFile
    /\ IdleScan
    /\ IdlePack
    /\ IdleHeader
    /\ IdlePsf
    /\ IdleCopy
    /\ IdleRun
    /\ IdleSlot
    /\ IdleLoad

SpecTerms == TermsInit /\ [][NextTerms]_vars

RunInit ==
    /\ InitRun
    /\ RestBloom
    /\ IdleFuse
    /\ IdleNGram
    /\ IdleDict
    /\ IdleReader
    /\ IdleSchema
    /\ IdleFile
    /\ IdleScan
    /\ IdlePack
    /\ IdleHeader
    /\ IdlePsf
    /\ IdleCopy
    /\ IdleTerms
    /\ IdleSlot
    /\ IdleLoad

SpecRun == RunInit /\ [][NextRun]_vars

SlotInit ==
    /\ InitSlot
    /\ IdleBloom
    /\ IdleFuse
    /\ IdleNGram
    /\ IdleDict
    /\ IdleReader
    /\ IdleSchema
    /\ IdleFile
    /\ IdleScan
    /\ IdlePack
    /\ IdleHeader
    /\ IdlePsf
    /\ IdleCopy
    /\ IdleTerms
    /\ IdleRun
    /\ IdleLoad

SpecSlot == SlotInit /\ [][NextSlot]_vars

LoadInit ==
    /\ InitLoad
    /\ RestBloom
    /\ IdleFuse
    /\ IdleNGram
    /\ IdleDict
    /\ IdleReader
    /\ IdleSchema
    /\ IdleFile
    /\ IdleScan
    /\ IdlePack
    /\ IdleHeader
    /\ IdlePsf
    /\ IdleCopy
    /\ IdleTerms
    /\ IdleRun
    /\ IdleSlot

SpecLoad == LoadInit /\ [][NextLoad]_vars

\* ---------------------------------------------------------------------------
\* Claims
\* ---------------------------------------------------------------------------

\* C1: once add(x) has returned on a BloomFilter, possibly_contains(x) is true
\* in every later state, for every constructor argument (expected_num_elements
\* = 0 and the default constructor included).
C1_NoFalseNegatives ==
    \A x \in bloom_added : bloom_possibly_contains(bloom, sha, x)

\* C3: an NGramPrefixFilter constructed from a non-empty key set S (keys of
\* any lengths, the empty string included) answers possibly_contains(x) = true
\* for every x in S; the inner filters have no false negatives on their items.
C3_NGramNoFalseNegatives ==
    \A x \in ngram_keys : ngram_possibly_contains(ngram, x)

ScanIds(ids) == {ids[i] : i \in 1 .. Len(ids)}

\* The conditions under which a scan may count an archive as skipped, for
\* the arguments of the last run: extraction is supported, there is a term,
\* the id has an index entry whose byte range lies inside the pack, the
\* range decodes as a FilterFile and the decoded filter rejects a term.
ScanMaySkip(archive_id) ==
    LET term_result == collect_filter_terms(scan_in.query.expr, FALSE,
                                            NewFilterTermExtractionResult)
        terms == Unique(term_result.terms, {})
        footer == parse_filter_pack_footer(scan_in.pack_bytes)
        found == FindEntry(parse_filter_pack_index(scan_in.pack_bytes, footer).entries,
                           archive_id)
        first == NumValue(footer.body_offset) + NumValue(found.entry.offset)
        size == NumValue(found.entry.size)
        read == read_filter_file(SubSeq(scan_in.pack_bytes, first + 1, first + size),
                                 DefaultFilterConfig, DefaultProbabilisticFilter, 0)
    IN /\ term_result.supported
       /\ terms # <<>>
       /\ found.found
       /\ NumValue(footer.body_offset) <= Len(scan_in.pack_bytes)
       /\ NumValue(found.entry.offset) <= Len(scan_in.pack_bytes)
       /\ size <= Len(scan_in.pack_bytes)
       /\ first + size <= Len(scan_in.pack_bytes)
       /\ read.ok
       /\ \E i \in 1 .. Len(terms) :
              ~wrapper_possibly_contains(read.filter, sha, <<>>,
                                         IF read.config.normalize THEN to_lower(terms[i])
                                         ELSE terms[i])

\* C5: once run_filter_scan has got past parsing the query and the pack, an
\* archive is counted as skipped only if extraction is supported, the term
\* list is non-empty, its id has an index entry whose byte range lies inside
\* the pack, the range decodes as a FilterFile and the decoded filter
\* rejects a term; in every other case its id appears in passed.
C5_SkippedOnlyWhenRejected ==
    scan_out.status \in {"ok", "crash"} =>
        /\ scan_out.status = "ok"
        /\ \A id \in ScanIds(scan_in.archive_ids) :
               ~ScanMaySkip(id) => id \in ScanIds(scan_out.passed)
        /\ scan_out.skipped
               <= Cardinality({i \in 1 .. Len(scan_in.archive_ids) :
                                  ScanMaySkip(scan_in.archive_ids[i])})

\* C6: should_load_variable_dictionary returns false exactly when a dictionary
\* filter is loaded, the query yields at least one exact-match search string,
\* ignore_case is false and the filter rejects every extracted string (the
\* reader's bloom_filter_might_contain answers false for it); the skipped
\* load loses no match, get_entry_matching_value finds none of the strings.
C6_SkipExactlyWhenAllRejected ==
    \A expr \in Queries, ignore_case \in BOOLEAN :
        LET search_strings == extract_var_search_strings(expr)
            skip == ~should_load_variable_dictionary(dr, sha, expr, ignore_case)
        IN /\ skip <=> /\ has_bloom_filter(dr)
                        /\ search_strings # {}
                        /\ ~ignore_case
                        /\ \A str \in search_strings : ~bloom_filter_might_contain(dr, sha, str)
           /\ skip => \A str \in search_strings :
                          get_entry_matching_value(dr, sha, str, ignore_case) = {}

\* C6 is exercised: the filter was loaded and is enabled, and the last call
\* returned false.
C6_Witness ==
    /\ out_call.called
    /\ ~out_call.result
    /\ has_bloom_filter(dr)
    /\ dr.m_use_bloom_filter
    /\ dr_load = "true"

\* C7: whenever the most recent load_bloom_filter call returned false, the
\* filter is recorded as absent: has_bloom_filter() is false and
\* bloom_filter_might_contain(s) is true for every string s.
C7_FailedLoadRecordsAbsent ==
    (dr_load = "false") =>
        /\ ~has_bloom_filter(dr)
        /\ \A str \in ReaderValues : bloom_filter_might_contain(dr, sha, str)

\* C8: for both column filter classes, contains(column_id, v) returns true
\* whenever column_id has no value set in the filter.
C8_AbsentColumnPasses ==
    (schema_query.asked /\ schema_query.column_absent) => schema_query.answer

\* C9: write_to_file persists a column if and only if it has insertions and
\* 100 * |distinct values| <= number of insertions, and every persisted column
\* carries its complete set of distinct values.
C9_PersistedIffWithinThreshold ==
    schema_file.present =>
        LET from == schema_file.from
            read == schema_read_from_file(schema_file.bytes, schema_variant)
            persisted == DOMAIN read.f.m_column_values_map
        IN /\ read.ok
           /\ persisted = {c \in DOMAIN from.m_column_values_map :
                              /\ from.m_column_count_map[c] > 0
                              /\ 100 * Cardinality(from.m_column_values_map[c])
                                     <= from.m_column_count_map[c]}
           /\ \A c \in persisted :
                  read.f.m_column_values_map[c] = from.m_column_values_map[c]

\* C9 is exercised: a file was written with one column exactly at the
\* threshold and persisted with two values, and another column left out.
C9_Witness ==
    /\ schema_file.present
    /\ \E c \in DOMAIN schema_file.from.m_column_values_map :
           /\ Cardinality(schema_file.from.m_column_values_map[c]) = 2
           /\ schema_file.from.m_column_count_map[c] = 200
    /\ DOMAIN schema_read_from_file(schema_file.bytes, schema_variant).f.m_column_values_map
           # DOMAIN schema_file.from.m_column_values_map

\* C10: for every filter kind, reading back the bytes that were written for a
\* filter succeeds and yields the same kind, false-positive rate, element
\* count and normalize flag, and a filter that answers every query as the
\* original does.
C10_RoundTrip ==
    (ff_read.done /\ ff_read.written.config.type # "None") =>
        LET original == ff_read.written
        IN /\ ff_read.ok
           /\ ff_read.config = original.config
           /\ ff_read.num_elements = original.num_elements
           /\ ff_read.filter.type = original.filter.type
           /\ \A value \in FileValues :
                  \A hash \in HashOutputs(IF original.filter.type = "BinaryFuse"
                                           THEN original.filter.impl.m_segment_length ELSE 1) :
                      wrapper_possibly_contains(ff_read.filter, sha, [v \in {value} |-> hash],
                                                value)
                          = wrapper_possibly_contains(original.filter, sha,
                                                      [v \in {value} |-> hash], value)

\* C11: after build_filter_pack_file has succeeded on a manifest with
\* distinct archive ids of at most 255 bytes, the footer and the index of
\* the output parse to one entry per manifest line in manifest order, with
\* body_offset 0, entry offsets contiguous from 0, index_offset equal to the
\* sum of the input sizes, and each entry's byte range holding the bytes of
\* its input file.
C11_PackRoundTrip ==
    (/\ pack_parsed.done
     /\ ~pack_out.altered
     /\ \A i, j \in 1 .. Len(pack_inputs) :
            i # j => pack_inputs[i].archive_id # pack_inputs[j].archive_id
     /\ \A i \in 1 .. Len(pack_inputs) : Len(pack_inputs[i].archive_id) <= MaxArchiveIdLen)
    => LET footer == pack_parsed.footer
           entries == pack_parsed.index.entries
       IN /\ footer.ok /\ pack_parsed.index.ok
          /\ Len(entries) = Len(pack_inputs)
          /\ NumValue(footer.body_offset) = 0
          /\ NumValue(footer.index_offset) = InputOffset(pack_inputs, Len(pack_inputs) + 1)
          /\ \A i \in 1 .. Len(pack_inputs) :
                 /\ entries[i].archive_id = pack_inputs[i].archive_id
                 /\ NumValue(entries[i].offset) = InputOffset(pack_inputs, i)
                 /\ NumValue(entries[i].size) = Len(pack_inputs[i].file)
                 /\ SubSeq(pack_out.bytes, NumValue(entries[i].offset) + 1,
                           NumValue(entries[i].offset) + NumValue(entries[i].size))
                        = pack_inputs[i].file

\* C11 is exercised: a pack of two filter files of different sizes, one
\* under the longest id, was built and parsed
C11_Witness ==
    /\ pack_parsed.done
    /\ ~pack_out.altered
    /\ Len(pack_inputs) = 2
    /\ Len(pack_inputs[1].archive_id) = MaxArchiveIdLen
    /\ Len(pack_inputs[1].file) # Len(pack_inputs[2].file)
    /\ pack_inputs[1].archive_id # pack_inputs[2].archive_id

\* the entries of an index that carry an archive id, in index order
EntriesOf(entries, archive_id) ==
    SelectSeq2(entries, {i \in 1 .. Len(entries) : entries[i].archive_id = archive_id})

\* C12: when the pack index holds several entries with the same archive id,
\* the scan locates that archive's filter through the last of them in index
\* order: the archive passes exactly when it passes with that entry alone.
C12_LastDuplicateWins ==
    (scan_out.status = "ok" /\ scan_out.supported /\ scan_out.total > 0) =>
        LET term_result == collect_filter_terms(scan_in.query.expr, FALSE,
                                                NewFilterTermExtractionResult)
            terms == Unique(term_result.terms, {})
            terms_lower == [i \in 1 .. Len(terms) |-> to_lower(terms[i])]
            footer == parse_filter_pack_footer(scan_in.pack_bytes)
            entries == parse_filter_pack_index(scan_in.pack_bytes, footer).entries
        IN terms # <<>> =>
               \A id \in ScanIds(scan_in.archive_ids) :
                   LET same == EntriesOf(entries, id)
                   IN Len(same) > 1 =>
                          ((id \in ScanIds(scan_out.passed))
                               = (scan_archive(scan_in.pack_bytes, scan_memory, footer,
                                               <<same[Len(same)]>>, terms, terms_lower, sha,
                                               id) = "passed"))

\* C13: read_filter_file never reports success for a file whose magic is
\* not "CLPF", whose version is not 1, or whose kind byte is not a member of
\* the kind enumeration.
C13_InvalidHeaderFails ==
    (/\ hdr_read.done
     /\ \/ SubSeq(hdr_file, 1, 4) # kFilterFileMagic
        \/ NumValue(SubSeq(hdr_file, 5, 8)) # kFilterFileVersion
        \/ TypeOfValue(hdr_file[9]) \notin FilterTypes)
    => ~hdr_read.ok

\* the number of bytes the entries of an index take, header included
IndexLength(entries) ==
    LET RECURSIVE Upto(_)
        Upto(i) == IF i = 0 THEN kFilterPackIndexHeaderSize
                   ELSE Upto(i - 1) + 1 + Len(entries[i].archive_id) + 8 + 4
    IN Upto(Len(entries))

\* C14: parse_filter_pack_index succeeds only if all the entries its count
\* field declares lie inside the index region, which is index_size bytes
\* long: it never accepts an entry with a byte beyond the region.
C14_EntriesInsideIndexRegion ==
    (pack_parsed.done /\ pack_parsed.footer.ok /\ pack_parsed.index.ok) =>
        IndexLength(pack_parsed.index.entries) <= NumValue(pack_parsed.footer.index_size)

\* C15: BinaryFuseFilter::add always fails with an error and leaves the
\* fingerprint buffer, the seed, the segment length and the array size as
\* they were, called directly or through ProbabilisticFilter::add, before
\* or after construction.
C15_AddAlwaysFails ==
    fuse_add_call.called => (fuse_add_call.threw /\ fuse_add_call.unchanged)

\* C15 is exercised: add was called through the wrapper on a filter that
\* construction from a non-empty key set has filled
C15_Witness ==
    /\ fuse_add_call.called
    /\ fuse_add_call.through_wrapper
    /\ fuse_phase = "built"
    /\ fuse_keys # {}
    /\ \E i \in 1 .. Len(fuse.m_filter_u8) : fuse.m_filter_u8[i] # 0

\* C16: for an NGramPrefixFilter with n-gram length n and any query x: with no
\* inner filter for length |x| the answer is false; with |x| < n the answer is
\* the inner filter's answer on x itself; otherwise the answer is true exactly
\* when every one of the |x| - n + 1 length-n substrings of x passes the inner
\* filter for length |x|.  Stated of every query step, against the filter the
\* query ran on.
C16_QueryAnswer ==
    [][(ngram_query' # ngram_query) =>
          LET x == ngram_query'.value
              n == ngram.m_n
              map == ngram.m_length_filter_map
          IN /\ ngram' = ngram
             /\ IF Len(x) \notin DOMAIN map THEN ngram_query'.answer = FALSE
                ELSE IF Len(x) < n
                THEN ngram_query'.answer = (x \in map[Len(x)].accepts)
                ELSE ngram_query'.answer =
                        (\A i \in 1 .. (Len(x) - n + 1) :
                             SubSeq(x, i, i + n - 1) \in map[Len(x)].accepts)]_vars

\* C16 is exercised: a query with more than one n-gram was rejected although
\* its first n-gram passes the inner filter of its length
C16_Witness ==
    /\ ngram_query.asked
    /\ ngram_keys # {}
    /\ ngram.m_n >= 1
    /\ Len(ngram_query.value) > ngram.m_n
    /\ Len(ngram_query.value) \in DOMAIN ngram.m_length_filter_map
    /\ SubSeq(ngram_query.value, 1, ngram.m_n)
           \in ngram.m_length_filter_map[Len(ngram_query.value)].accepts
    /\ ~ngram_query.answer

\* C17: PrefixSuffixFilter::possibly_contains returns true for every pattern
\* that both starts and ends with '*', in every state of the filter.
C17_InfixAlwaysPasses ==
    (/\ psf_query.asked
     /\ psf_query.pattern # <<>>
     /\ psf_query.pattern[1] = "*"
     /\ psf_query.pattern[Len(psf_query.pattern)] = "*") => psf_query.answer

\* C18: after add(v) on a PrefixSuffixFilter for a non-empty value v, the
\* exact query v passes, every query p* with p a prefix of v of at least
\* kMinLength characters passes, and every query *s with s a suffix of v of at
\* least kMinLength characters passes.
C18_AddedValuePasses ==
    \A v \in psf_added \ {<<>>} :
        /\ psf_possibly_contains(psf, sha, v)
        /\ \A len \in kMinLength .. Len(v) :
              /\ psf_possibly_contains(psf, sha, Append(SubSeq(v, 1, len), "*"))
              /\ psf_possibly_contains(psf, sha,
                                       <<"*">> \o SubSeq(v, Len(v) - len + 1, Len(v)))

\* C19: after a ProbabilisticFilter has been copied, by copy construction or
\* by copy assignment, an add on the copy leaves every possibly_contains
\* answer of the original as it was, and an add on the original leaves every
\* answer of the copy as it was; so does any sequence of adds.
C19_CopiesIndependent ==
    [][(cp_log.copied /\ cp_log'.adds # cp_log.adds) =>
          /\ cp_log'.last = "copy" =>
                \A v \in CopyValues :
                    pointer_possibly_contains(cp_heap', cp_orig', sha', v)
                        = pointer_possibly_contains(cp_heap, cp_orig, sha, v)
          /\ cp_log'.last = "original" =>
                \A v \in CopyValues :
                    pointer_possibly_contains(cp_heap', cp_copy', sha', v)
                        = pointer_possibly_contains(cp_heap, cp_copy, sha, v)]_vars

\* C19 is exercised: after a copy assignment an add on the copy has made the
\* copy accept a value the original rejects
C19_Witness ==
    /\ cp_log.copied
    /\ cp_log.assigns > 0
    /\ cp_log.last = "copy"
    /\ \E v \in CopyValues :
          /\ pointer_possibly_contains(cp_heap, cp_copy, sha, v)
          /\ ~pointer_possibly_contains(cp_heap, cp_orig, sha, v)

\* C20: BloomFilterPolicy::compute_parameters returns a bits_per_key and a
\* number of hash functions that both lie in [1, 20], for every target
\* false-positive rate, the rates <= 0 and >= 1 included (bits_per_key is
\* held in thousandths of a bit).
C20_ParametersClamped ==
    bloom_params.called =>
        /\ bloom_params.bits_per_key >= 1000
        /\ bloom_params.bits_per_key <= 20000
        /\ bloom_params.num_hash_functions >= 1
        /\ bloom_params.num_hash_functions <= 20

\* C21: for every target false-positive rate, the rates <= 0 and >= 1
\* included, a BinaryFuseFilter constructed with it has a fingerprint width
\* in [4, 32].
C21_FingerprintBitsInRange ==
    fuse_phase \in {"constructing", "built", "failed"} =>
        (fuse.m_fingerprint_bits >= 4 /\ fuse.m_fingerprint_bits <= 32)

RECURSIVE VisitOrder(_)
\* what a left-to-right depth-first walk through AndExpr nodes meets, in
\* order: for every node and every non-expression operand the reason it
\* offends with ("" for none) and the term it contributes (<<>> for none)
VisitOrder(expr) ==
    LET offence == IF expr.kind = "Literal" THEN "non-expression-operand"
                   ELSE IF expr.inverted THEN "inverted-expression"
                   ELSE IF expr.kind = "OrExpr" THEN "or-expression"
                   ELSE IF expr.kind \notin {"AndExpr", "FilterExpr"}
                   THEN "unsupported-expression"
                   ELSE ""
        term == IF /\ expr.kind = "FilterExpr"
                   /\ expr.op = "EQ"
                   /\ expr.var_string
                   /\ ~has_unescaped_wildcards(expr.query_string)
                THEN <<unescape_string(expr.query_string)>>
                ELSE <<>>
        RECURSIVE Below(_)
        Below(i) == IF i > Len(expr.ops) THEN <<>>
                    ELSE VisitOrder(expr.ops[i]) \o Below(i + 1)
    IN <<[offence |-> offence, term |-> term]>>
           \o (IF expr.kind = "AndExpr" /\ offence = "" THEN Below(1) ELSE <<>>)

RECURSIVE TermsBefore(_, _)
TermsBefore(visits, n) ==
    IF n = 0 THEN <<>> ELSE TermsBefore(visits, n - 1) \o visits[n].term

\* C22: collect_filter_terms reports supported = true exactly when no node it
\* visits is inverted, is an OrExpr, is an AndExpr with a non-expression
\* operand, or is neither AndExpr nor FilterExpr; when unsupported the reason
\* is that of the first offence in left-to-right depth-first order and no
\* term is added after it; when supported the terms are the unescaped string
\* literals of the EQ leaves without unescaped wildcards that are reachable
\* through AndExpr nodes, in traversal order.
C22_TermsAndReason ==
    terms_result.done =>
        LET visits == VisitOrder(terms_expr)
            offences == {i \in 1 .. Len(visits) : visits[i].offence # ""}
            first == CHOOSE i \in offences : \A j \in offences : i <= j
        IN /\ terms_result.supported = (offences = {})
           /\ offences = {} =>
                 /\ terms_result.terms = TermsBefore(visits, Len(visits))
                 /\ terms_result.reason = ""
           /\ offences # {} =>
                 /\ terms_result.reason = visits[first].offence
                 /\ terms_result.terms = TermsBefore(visits, first - 1)

\* C22 is exercised: an extraction through a nested AndExpr that gathered a
\* term and then stopped at an offending node
C22_Witness ==
    /\ terms_result.done
    /\ ~terms_result.supported
    /\ terms_result.reason = "or-expression"
    /\ terms_result.terms = <<"a">>
    /\ terms_expr.kind = "AndExpr"
    /\ Len(terms_expr.ops) = 2
    /\ terms_expr.ops[1].kind = "AndExpr"

\* the positions of a call in the calls of the run
CallsOf(name) == {i \in 1 .. Len(out_run.calls) : out_run.calls[i] = name}

\* the run has consulted the filter it loaded, for every string the query
\* yields, and the filter rejected each of them
EveryTermRejected ==
    /\ CallsOf("should_load_variable_dictionary") # {}
    /\ out_run.loaded
    /\ ~out_in.ignore_case
    /\ extract_var_search_strings(out_in.expr) # {}
    /\ \A str \in extract_var_search_strings(out_in.expr) :
          ~bloom_filter_might_contain(out_run.r, sha, str)

RejectedByFilter ==
    /\ out_run.pc = "returned"
    /\ CallsOf("should_load_variable_dictionary") # {}
    /\ CallsOf("read_variable_dictionary") = {}

\* the loaded filter answers true for every string the archive holds
NoFalseNegatives ==
    \A rec \in out_in.records : bloom_filter_might_contain(out_run.r, sha, rec.s)

\* C28: whenever Output::filter returns early with an empty result because
\* the dictionary filter rejected the extracted search strings, no record of
\* the archive satisfies the query, whatever the shape of the query (an OR of
\* a string predicate with a predicate on another type, inverted expressions,
\* operations other than EQ on string columns), provided the filter has no
\* false negatives.
C28_EarlyReturnIsSound ==
    (RejectedByFilter /\ NoFalseNegatives) =>
        \A rec \in out_in.records : ~Satisfies(rec, out_in.expr, out_in.ignore_case)

\* one pass of the loop of construct_filter over a non-empty key buffer: any
\* step of a construction in progress that touches the filter or its hash
ConstructPass ==
    /\ fuse_phase = "constructing"
    /\ fuse.m_keys_buffer # <<>>
    /\ fuse_phase' # fuse_phase \/ fuse' # fuse \/ fuse_h' # fuse_h

\* the peeling of the pass placed every key of the buffer on the stack
AllKeysPlaced == Len(PeelKeys(fuse, fuse_h).stack) = Len(fuse.m_keys_buffer)

\* no key stands twice on the stack of the pass
EachKeyOnce ==
    LET stack == PeelKeys(fuse, fuse_h).stack
    IN \A i, j \in 1 .. Len(stack) : stack[i][1] = stack[j][1] => i = j

\* C24: construct_filter terminates for every key set; it tries the seeds 0, 1,
\* 2, ... in increasing order and stops at the first seed whose peeling places
\* every key of the buffer on the stack, each key at most once, and after
\* max_attempts failed seeds it fails with a construction error and leaves no
\* usable filter.  Termination is stated by its variant: the call starts at
\* seed 0, a call in progress has tried fewer than max_attempts seeds, and
\* every pass either ends the call or moves to the next seed.
C24_ConstructFilterTerminates ==
    /\ fuse_phase = "constructing" /\ fuse.m_seed = 0
    /\ [](fuse_phase = "constructing" => fuse.m_seed < max_attempts)
    /\ [][ConstructPass =>
            /\ EachKeyOnce
            /\ AllKeysPlaced =>
                    fuse_phase' = "built" /\ fuse'.m_seed = fuse.m_seed
            /\ ~AllKeysPlaced =>
                    /\ fuse'.m_seed = fuse.m_seed + 1
                    /\ fuse_phase' = IF fuse'.m_seed < max_attempts
                                     THEN "constructing" ELSE "failed"]_vars
    /\ [](fuse_phase = "failed" => fuse.m_seed = max_attempts)
    /\ [](fuse_phase \in {"constructing", "built", "failed"})

\* a key set that no seed peels: all max_attempts seeds were tried and the
\* construction ended in the error
C24_Witness ==
    /\ fuse_phase = "failed"
    /\ fuse.m_seed = max_attempts
    /\ Len(fuse.m_keys_buffer) > 1

\* the filter of SpecSlot as it was before the last set_filter_value
SlotBefore == [slot_f EXCEPT !.m_filter_u8 = slot_before]

\* C25: for every fingerprint width the filter can have and every slot pos of
\* the array, the slots in its last 8 bytes included: after
\* set_filter_value(pos, v), get_filter_value(pos) is v masked to the
\* fingerprint width and get_filter_value(q) is unchanged for every other slot q
C25_SetThenGet ==
    slot_call.called =>
        /\ get_filter_value(slot_f, slot_call.pos)
               = AndMask(slot_call.value, slot_f.m_fingerprint_bits)
        /\ \A q \in 0 .. slot_f.m_array_size - 1 :
               q # slot_call.pos => get_filter_value(slot_f, q) = get_filter_value(SlotBefore, q)

\* C26: in every state of a non-empty BloomFilter, after construction with
\* expected_num_elements >= 1, after any add and after a read_from_file that
\* returned true on any byte stream, the byte array has ceil(bit_array_size / 8)
\* bytes and bit_array_size >= 8
C26_BitArraySized ==
    (ld_bloom.m_bit_array # <<>> /\ (ld_read.called => ld_read.returned)) =>
        /\ Len(ld_bloom.m_bit_array) = CeilDiv(ld_bloom.m_bit_array_size, 8)
        /\ ld_bloom.m_bit_array_size >= 8

\* the sum of the lengths of the keys the filter was built from
TotalKeyLength == SumOver([key \in ngram_keys |-> Len(key)], ngram_keys)

\* C27: for every non-empty key set the n-gram length that calculate_n
\* computes satisfies 1 <= n <= average key length
C27_NGramLengthInRange ==
    ngram_keys # {} =>
        /\ 1 <= ngram.m_n
        /\ ngram.m_n * Cardinality(ngram_keys) <= TotalKeyLength

\* C29: a PrefixSuffixFilter never rejects a single-anchored wildcard pattern
\* that matches an inserted value: for every inserted non-empty value v, every
\* non-empty prefix p of v, of any length, passes as p*, and every non-empty
\* suffix s of v passes as *s
C29_AnchoredPatternsPass ==
    \A v \in psf_added \ {<<>>} :
        \A len \in 1 .. Len(v) :
            /\ psf_possibly_contains(psf, sha, Append(SubSeq(v, 1, len), "*"))
            /\ psf_possibly_contains(psf, sha, <<"*">> \o SubSeq(v, Len(v) - len + 1, Len(v)))

\* the pack entry of an archive, for the arguments of the last run, lies
\* inside the pack and decodes as a FilterFile of kind None
DecodesAsNone(archive_id) ==
    LET footer == parse_filter_pack_footer(scan_in.pack_bytes)
        found == FindEntry(parse_filter_pack_index(scan_in.pack_bytes, footer).entries,
                           archive_id)
        first == NumValue(footer.body_offset) + NumValue(found.entry.offset)
        size == NumValue(found.entry.size)
        read == read_filter_file(SubSeq(scan_in.pack_bytes, first + 1, first + size),
                                 DefaultFilterConfig, DefaultProbabilisticFilter, 0)
    IN /\ found.found
       /\ NumValue(footer.body_offset) <= Len(scan_in.pack_bytes)
       /\ NumValue(found.entry.offset) <= Len(scan_in.pack_bytes)
       /\ size <= Len(scan_in.pack_bytes)
       /\ first + size <= Len(scan_in.pack_bytes)
       /\ read.ok
       /\ read.config.type = "None"

\* C30: in run_filter_scan an archive whose pack entry decodes as a
\* FilterFile of kind None, filter absent and no body, is included in passed
\* for every query and never counted as skipped
C30_AbsentFilterPasses ==
    scan_out.status = "ok" =>
        \A id \in ScanIds(scan_in.archive_ids) :
            DecodesAsNone(id) => id \in ScanIds(scan_out.passed)

====
